---- MODULE Spec2Model ----
(***************************************************************************)
(* Model of the GlideBuilder backend: the report parser of                 *)
(* backend/parser.ts, the generation orchestrator of backend/generator.ts  *)
(* (primary call, fallback call, static fallback), its sanitiser, document *)
(* assembler and reference digest.                                         *)
(*                                                                         *)
(* Text is a sequence of tokens.  A token is one character ("#", " ",      *)
(* "\n", "a", ...) wherever the code inspects characters, or one opaque    *)
(* word: a fixed literal of the source that holds no "<", starts with no   *)
(* "#" and has no white space at either end.                               *)
(***************************************************************************)
EXTENDS Integers, Sequences, FiniteSets, TLC

VARIABLES
    nodeEnv,        \* process.env.NODE_ENV
    llmFlag,        \* process.env.LOCAL_LLM_ENABLED
    modelId,        \* options.modelId ?? DEFAULT_MODEL_ID
    context,        \* the BreakdownGenerationContext of the request
    pc,             \* position of generateBreakdownDocument
    inFlight,       \* tiers whose backend call is awaiting its response
    calls,          \* history: the backend calls issued, in order
    attempts,       \* history: the outcome of each completed backend call
    failure,        \* the local variable 'failure' of the catch block
    staticBuilt,    \* history: buildFallbackDocument was called
    result,         \* what generateBreakdownDocument settled with
    references,     \* the reference corpus handed to buildReferenceDigest
    digest,         \* the outcome of buildReferenceDigest on 'references'
    reportBlocks,   \* the blocks the report was written as
    body,           \* the markdown of the request's body, the parser's argument
    parsedReport,   \* what parseVulnerabilityReport returned
    backendText,    \* a backend's output, the argument of sanitizeModelResponse
    sanitized,      \* what sanitizeModelResponse returned
    assembleArgs,   \* the arguments of a call of assembleDocument
    assembled,      \* what assembleDocument returned
    store,          \* the content store: the gliders and breakdowns directories
    requests        \* the requests in progress at the route, each with its locals

vars == << nodeEnv, llmFlag, modelId, context, pc, inFlight, calls, attempts,
           failure, staticBuilt, result, references, digest,
           reportBlocks, body, parsedReport, backendText, sanitized,
           assembleArgs, assembled, store, requests >>

requestVars == << nodeEnv, llmFlag, modelId, context, pc, inFlight, calls,
                  attempts, failure, staticBuilt, result >>

digestVars == << references, digest >>

parserVars == << reportBlocks, body, parsedReport >>

sanitizerVars == << backendText, sanitized >>

assemblerVars == << assembleArgs, assembled >>

routeVars == << store, requests >>

-----------------------------------------------------------------------------
(* Program constants of backend/generator.ts.                              *)

DEFAULT_MODEL_ID == "gpt-5-mini"
FALLBACK_MODEL_ID == "gpt-5-nano"
MAX_REFERENCE_LENGTH == 2500
MAX_TOTAL_REFERENCE_LENGTH == 9000
FALLBACK_SUMMARY_LENGTH == 600
LOCAL_LLM_MODEL == "qwen3:8b"

\* summarize: 'lastExtent > 200'
SummaryMinCut == 200

-----------------------------------------------------------------------------
(* Strings.                                                                *)

\* What String.prototype.trim and the regex class \s treat as white space.
WhiteSpace == {" ", "\n", "\t"}

\* The line terminator that '.' does not match and '^'/'$' anchor on (flag m).
LineTerminator == "\n"

UpperCase == << "A", "B", "C", "D", "E", "F", "G", "H", "I", "J", "K", "L", "M",
                "N", "O", "P", "Q", "R", "S", "T", "U", "V", "W", "X", "Y", "Z" >>
LowerCase == << "a", "b", "c", "d", "e", "f", "g", "h", "i", "j", "k", "l", "m",
                "n", "o", "p", "q", "r", "s", "t", "u", "v", "w", "x", "y", "z" >>

\* Case folding of the regex flag i.
Fold(c) ==
    IF \E k \in 1..26 : UpperCase[k] = c
    THEN LowerCase[CHOOSE k \in 1..26 : UpperCase[k] = c]
    ELSE c

Min(a, b) == IF a <= b THEN a ELSE b
Max(a, b) == IF a >= b THEN a ELSE b

\* String.prototype.slice(0, n) for 0 <= n.
Slice0(s, n) == SubSeq(s, 1, Min(n, Len(s)))

\* The text from position i (1-based) to the end.
From(s, i) == SubSeq(s, i, Len(s))

RECURSIVE TrimStart(_)
TrimStart(s) ==
    IF s = << >> \/ Head(s) \notin WhiteSpace THEN s ELSE TrimStart(Tail(s))

RECURSIVE TrimEnd(_)
TrimEnd(s) ==
    IF s = << >> \/ s[Len(s)] \notin WhiteSpace THEN s
    ELSE TrimEnd(SubSeq(s, 1, Len(s) - 1))

\* String.prototype.trim
Trim(s) == TrimEnd(TrimStart(s))

\* Array.prototype.join
RECURSIVE Join(_, _)
Join(parts, sep) ==
    IF Len(parts) = 0 THEN << >>
    ELSE IF Len(parts) = 1 THEN parts[1]
    ELSE parts[1] \o sep \o Join(Tail(parts), sep)

\* lit occurs in s at position i (1-based), compared exactly.
OccursAt(s, i, lit) ==
    /\ i >= 1
    /\ i + Len(lit) - 1 <= Len(s)
    /\ \A k \in 1..Len(lit) : s[i + k - 1] = lit[k]

\* lit occurs in s at position i, compared under case folding (flag i).
MatchesAt(s, i, lit) ==
    /\ i >= 1
    /\ i + Len(lit) - 1 <= Len(s)
    /\ \A k \in 1..Len(lit) : Fold(s[i + k - 1]) = Fold(lit[k])

\* Least position >= from where lit occurs in s, 0 when there is none.
IndexFrom(s, lit, from) ==
    IF \E i \in from..Len(s) : OccursAt(s, i, lit)
    THEN CHOOSE i \in from..Len(s) :
            /\ OccursAt(s, i, lit)
            /\ \A j \in from..(i - 1) : ~OccursAt(s, j, lit)
    ELSE 0

\* String.prototype.lastIndexOf: 0-based index of the last occurrence, -1 if none.
LastIndexOf(s, lit) ==
    IF \E i \in 1..Len(s) : OccursAt(s, i, lit)
    THEN (CHOOSE i \in 1..Len(s) :
            /\ OccursAt(s, i, lit)
            /\ \A j \in (i + 1)..Len(s) : ~OccursAt(s, j, lit)) - 1
    ELSE -1

\* The token that stands for the one character U+2026.
Ellipsis == "[U+2026]"

\* "\n... (truncated)", the 16 characters truncate appends.
TruncationMarker ==
    << "\n", ".", ".", ".", " ", "(", "t", "r", "u", "n", "c", "a", "t", "e", "d", ")" >>

truncate(content, maxLength) ==
    IF Len(content) <= maxLength
    THEN content
    ELSE Slice0(content, maxLength) \o TruncationMarker

summarize(text, maxLength) ==
    IF Len(text) <= maxLength
    THEN Trim(text)
    ELSE LET truncated == Slice0(text, maxLength)
             lastExtent == Max(LastIndexOf(truncated, << "." >>),
                               Max(LastIndexOf(truncated, << "\n", "\n" >>),
                                   LastIndexOf(truncated, << "\n" >>)))
             safeCut == IF lastExtent > SummaryMinCut THEN lastExtent ELSE maxLength
         IN  Trim(Slice0(truncated, safeCut)) \o << Ellipsis >>

-----------------------------------------------------------------------------
(* The static skeleton.                                                    *)

SkeletonLines ==
    << <<"from glider import *">>,
       <<>>,
       <<"def query():">>,
       <<" ", " ", " ", " ", "\"\"\"">>,
       <<" ", " ", " ", " ", "@title: <replace with concise detection title>">>,
       <<" ", " ", " ", " ", "@description:">>,
       <<" ", " ", " ", " ", " ", " ", "Detects <summarize the confirmed behaviour> by analysing:">>,
       <<" ", " ", " ", " ", " ", " ", " ", " ", "- <bullet describing exploit path>">>,
       <<" ", " ", " ", " ", " ", " ", " ", " ", "- <bullet describing impact or prerequisite>">>,
       <<>>,
       <<" ", " ", " ", " ", " ", " ", "This enables <note on business/technical impact>.">>,
       <<>>,
       <<" ", " ", " ", " ", " ", " ", "A hit requires:">>,
       <<" ", " ", " ", " ", " ", " ", " ", " ", "- <criterion #1>">>,
       <<" ", " ", " ", " ", " ", " ", " ", " ", "- <criterion #2>">>,
       <<" ", " ", " ", " ", " ", " ", " ", " ", "- <add more criteria as needed>">>,
       <<>>,
       <<" ", " ", " ", " ", "@tags: tag-one, tag-two, tag-three">>,
       <<" ", " ", " ", " ", "\"\"\"">>,
       <<>>,
       <<" ", " ", " ", " ", "LIMIT_FUNCS = 1_000">>,
       <<>>,
       <<" ", " ", " ", " ", "def matches_primary_signal(fn):">>,
       <<" ", " ", " ", " ", " ", " ", " ", " ", "\"\"\"Outline the principal signal expected for a true positive.\"\"\"">>,
       <<" ", " ", " ", " ", " ", " ", " ", " ", "# TODO: Implement predicate using fn.instructions(), fn.callee_functions(), storage(), etc.">>,
       <<" ", " ", " ", " ", " ", " ", " ", " ", "return False">>,
       <<>>,
       <<" ", " ", " ", " ", "def reinforces_context(fn):">>,
       <<" ", " ", " ", " ", " ", " ", " ", " ", "\"\"\"Capture secondary heuristics surfaced in the breakdown.\"\"\"">>,
       <<" ", " ", " ", " ", " ", " ", " ", " ", "# TODO: Implement context checks drawn from the report.">>,
       <<" ", " ", " ", " ", " ", " ", " ", " ", "return False">>,
       <<>>,
       <<" ", " ", " ", " ", "def excludes_false_positives(fn):">>,
       <<" ", " ", " ", " ", " ", " ", " ", " ", "\"\"\"List guard rails that remove benign matches or admin-only flows.\"\"\"">>,
       <<" ", " ", " ", " ", " ", " ", " ", " ", "# TODO: Implement guard rail logic once defined.">>,
       <<" ", " ", " ", " ", " ", " ", " ", " ", "return True">>,
       <<>>,
       <<" ", " ", " ", " ", "output = (">>,
       <<" ", " ", " ", " ", " ", " ", " ", " ", "Functions()">>,
       <<" ", " ", " ", " ", " ", " ", " ", " ", ".exec(LIMIT_FUNCS)">>,
       <<" ", " ", " ", " ", " ", " ", " ", " ", "# .filter(<helper_name>)  # implement your filter based on breakdown criteria">>,
       <<" ", " ", " ", " ", " ", " ", " ", " ", "# .filter(<helper_name>)  # implement your filter based on breakdown criteria">>,
       <<" ", " ", " ", " ", " ", " ", " ", " ", "# .filter(<helper_name>)  # implement your filter based on breakdown criteria">>,
       <<" ", " ", " ", " ", ")">>,
       <<>>,
       <<" ", " ", " ", " ", "return output">>,
       <<>>,
       <<"# Add additional helper functions that cover every detection criterion identified in the breakdown.">> >>

NewLine == << "\n" >>
BlankLine == << "\n", "\n" >>

buildGliderSkeleton == TrimEnd(Join(SkeletonLines, NewLine))

-----------------------------------------------------------------------------
(* Document assembly.                                                      *)

H2(word) == << "#", "#", " ", word >>

TitleHeading(title) == << "#", " " >> \o title \o << " ", "Breakdown" >>
VulnerabilityHeading == H2("Vulnerability Breakdown")
EvidenceHeading == H2("Evidence & Code Snippets")
BlueprintHeading == H2("Glider Detection Blueprint")
SkeletonHeading == H2("Boilerplate Glider Skeleton")

\* The token that stands for the one character U+0060.
BackTick == "[U+0060]"

FenceOpen == << BackTick, BackTick, BackTick, "python" >>
FenceClose == << BackTick, BackTick, BackTick >>

\* Faulty variant: the skeleton is trimmed like the body.
assembleDocumentTrimmingSkeleton(markdown, skeleton) ==
    Join(<< Trim(markdown),
            SkeletonHeading,
            << "Use this scaffold as a starting point while following official Glider examples." >>,
            FenceOpen,
            Trim(skeleton),
            FenceClose >>, BlankLine)

assembleDocument(markdown, skeleton) ==
    Join(<< Trim(markdown),
            SkeletonHeading,
            << "Use this scaffold as a starting point while following official Glider examples." >>,
            FenceOpen,
            skeleton,
            FenceClose >>, BlankLine)

\* The template literal that trims the assembled document and appends a newline.
Returned(doc) == Trim(doc) \o NewLine

Bullet(text) == << "-", " " >> \o text

RECURSIVE MapBullets(_, _)
MapBullets(items, field) ==
    IF Len(items) = 0 THEN << >>
    ELSE << Bullet(items[1][field]) >> \o MapBullets(Tail(items), field)

UnknownFailureNote == << "Unknown model failure while generating breakdown." >>

\* The array that buildFallbackDocument joins.
FallbackSections(ctx, error) ==
    LET report == ctx.report
        excerpt == summarize(report.raw, FALLBACK_SUMMARY_LENGTH)
        referenceTitles ==
            IF Len(ctx.referenceBreakdowns) > 0
            THEN Join(MapBullets(ctx.referenceBreakdowns, "title"), NewLine)
            ELSE Bullet(<< "None available" >>)
        artifactList ==
            IF Len(report.artifacts) > 0
            THEN Join(MapBullets(report.artifacts, "label"), NewLine)
            ELSE Bullet(<< "No code snippets detected" >>)
        failureNote == IF error.isError THEN error.message ELSE UnknownFailureNote
    IN  << TitleHeading(report.metadata.title),
           VulnerabilityHeading,
           IF excerpt # << >> THEN excerpt
           ELSE << "Report content was not provided." >>,
           EvidenceHeading,
           artifactList,
           BlueprintHeading,
           Join(<< << "Start with Glider helper functions that map to the failure mode:" >>,
                   << "1. Filter externally callable entry points touching the vulnerable state." >>,
                   << "2. Inspect arithmetic or state transitions highlighted in the report." >>,
                   << "3. Correlate on-chain events or storage transitions that confirm the exploit path." >>,
                   << >>,
                   << "Reference breakdowns you can adapt:" >>,
                   referenceTitles,
                   << >>,
                   << "Consult official Glider documentation for Functions(), Instructions(), and Contracts() usage patterns." >>
                >>, NewLine),
           << >>,
           << ">", " ", "AI fallback notice:", " " >> \o failureNote >>

\* Faulty variant: an early return for a report without content.
buildFallbackDocumentEarlyReturn(ctx, error) ==
    IF summarize(ctx.report.raw, FALLBACK_SUMMARY_LENGTH) = << >>
    THEN << "Report content was not provided." >>
    ELSE Join(FallbackSections(ctx, error), BlankLine)

buildFallbackDocument(ctx, error) == Join(FallbackSections(ctx, error), BlankLine)

-----------------------------------------------------------------------------
(* Sanitisation of the backend's output.                                   *)

ThinkOpen == << "<", "t", "h", "i", "n", "k", ">" >>
ThinkClose == << "<", "/", "t", "h", "i", "n", "k", ">" >>

\* cleaned.replace(/<think>[\s\S]*?<\/think>/gi, ''), scanning from position i.
RECURSIVE StripThinkFrom(_, _)
StripThinkFrom(s, i) ==
    IF i > Len(s) THEN << >>
    ELSE IF /\ MatchesAt(s, i, ThinkOpen)
            /\ \E j \in (i + Len(ThinkOpen))..Len(s) : MatchesAt(s, j, ThinkClose)
    THEN LET j == CHOOSE j \in (i + Len(ThinkOpen))..Len(s) :
                    /\ MatchesAt(s, j, ThinkClose)
                    /\ \A k \in (i + Len(ThinkOpen))..(j - 1) : ~MatchesAt(s, k, ThinkClose)
         IN  StripThinkFrom(s, j + Len(ThinkClose))
    ELSE << s[i] >> \o StripThinkFrom(s, i + 1)

ReasoningLabels ==
    { << "R", "e", "a", "s", "o", "n", "i", "n", "g" >>,
      << "T", "h", "o", "u", "g", "h", "t", "s" >>,
      << "A", "n", "a", "l", "y", "s", "i", "s" >> }

\* First position >= i that holds no token of the set cls (Len(s) + 1 at the end):
\* where a greedy cls* that starts at i stops.
SkipWhile(s, i, cls) ==
    IF \E j \in i..Len(s) : s[j] \notin cls
    THEN CHOOSE j \in i..Len(s) :
            /\ s[j] \notin cls
            /\ \A k \in i..(j - 1) : s[k] \in cls
    ELSE Len(s) + 1

\* '^' under flag m.
IsLineStart(s, i) == i = 1 \/ (i > 1 /\ i <= Len(s) + 1 /\ s[i - 1] = LineTerminator)

\* Position of the label once ^\s*(#+\s*)? has matched from i.
LabelPosition(s, i) ==
    LET afterSpace == SkipWhile(s, i, WhiteSpace)
    IN  IF afterSpace <= Len(s) /\ s[afterSpace] = "#"
        THEN SkipWhile(s, SkipWhile(s, afterSpace, {"#"}), WhiteSpace)
        ELSE afterSpace

\* /^\s*(#+\s*)?(Reasoning|Thoughts|Analysis)\s*:?.*$/im matches at i.
LabelMatchesAt(s, i) ==
    /\ IsLineStart(s, i)
    /\ \E lab \in ReasoningLabels : MatchesAt(s, LabelPosition(s, i), lab)

\* First position after that match: \s*:?.*$ taken greedily.
LabelMatchEnd(s, i) ==
    LET p == LabelPosition(s, i)
        lab == CHOOSE l \in ReasoningLabels : MatchesAt(s, p, l)
        afterSpace == SkipWhile(s, p + Len(lab), WhiteSpace)
        afterColon == IF afterSpace <= Len(s) /\ s[afterSpace] = ":"
                      THEN afterSpace + 1 ELSE afterSpace
    IN  IF \E j \in afterColon..Len(s) : s[j] = LineTerminator
        THEN CHOOSE j \in afterColon..Len(s) :
                /\ s[j] = LineTerminator
                /\ \A k \in afterColon..(j - 1) : s[k] # LineTerminator
        ELSE Len(s) + 1

\* cleaned.replace(/^\s*(#+\s*)?(Reasoning|Thoughts|Analysis)\s*:?.*$/gim, '')
RECURSIVE StripLabelledFrom(_, _)
StripLabelledFrom(s, i) ==
    IF i > Len(s) THEN << >>
    ELSE IF LabelMatchesAt(s, i)
    THEN StripLabelledFrom(s, LabelMatchEnd(s, i))
    ELSE << s[i] >> \o StripLabelledFrom(s, i + 1)

\* cleaned.replace(/\n{3,}/g, '\n\n')
RECURSIVE CollapseFrom(_, _)
CollapseFrom(s, i) ==
    IF i > Len(s) THEN << >>
    ELSE IF OccursAt(s, i, << "\n", "\n", "\n" >>)
    THEN BlankLine \o CollapseFrom(s, SkipWhile(s, i, {"\n"}))
    ELSE << s[i] >> \o CollapseFrom(s, i + 1)

sanitizeModelResponse(text) ==
    Trim(CollapseFrom(StripLabelledFrom(StripThinkFrom(text, 1), 1), 1))

-----------------------------------------------------------------------------
(* Regular expressions of the source, as the engine evaluates them: a      *)
(* pattern is a tree, and matching it at a position yields the ways it can *)
(* match there in the order backtracking tries them; the first one is the  *)
(* match that RegExp.prototype.exec reports.                               *)

Digits == { "0", "1", "2", "3", "4", "5", "6", "7", "8", "9" }

\* The class \w.
WordChars ==
    { UpperCase[k] : k \in 1..26 } \cup { LowerCase[k] : k \in 1..26 }
        \cup Digits \cup { "_" }

\* String.prototype.toLowerCase
toLowerCase(s) == [k \in 1..Len(s) |-> Fold(s[k])]

\* A literal.
Lit(cs) == [t |-> "lit", cs |-> cs]
\* A literal of a pattern with flag i.  Such a pattern is matched against the
\* lower-cased subject (ExecI, TestI), its literals lower-cased likewise.
LitI(cs) == Lit(toLowerCase(cs))
\* A character class [...] and its negation [^...].
OneOf(chars) == [t |-> "cls", chars |-> chars, neg |-> FALSE]
NoneOf(chars) == [t |-> "cls", chars |-> chars, neg |-> TRUE]
\* \s, \w, \n, '.', [\s\S], [\s-], [:\s]
Space == OneOf(WhiteSpace)
Word == OneOf(WordChars)
Newline == OneOf({ LineTerminator })
Dot == NoneOf({ LineTerminator })
AnyChar == NoneOf({})
SpaceOrHyphen == OneOf(WhiteSpace \cup { "-" })
ColonOrSpace == OneOf(WhiteSpace \cup { ":" })
\* r*, r+, r? and the lazy r*?
Star(r) == [t |-> "rep", r |-> r, min |-> 0, many |-> TRUE, lazy |-> FALSE]
Plus(r) == [t |-> "rep", r |-> r, min |-> 1, many |-> TRUE, lazy |-> FALSE]
Opt(r) == [t |-> "rep", r |-> r, min |-> 0, many |-> FALSE, lazy |-> FALSE]
LazyStar(r) == [t |-> "rep", r |-> r, min |-> 0, many |-> TRUE, lazy |-> TRUE]
\* r1 r2 ..., r1|r2|..., the capturing group number n, (?!r), ^ and $ (flag m), \b
Cat(rs) == [t |-> "cat", rs |-> rs]
Alt(rs) == [t |-> "alt", rs |-> rs]
Group(n, r) == [t |-> "grp", n |-> n, r |-> r]
NotAhead(r) == [t |-> "nla", r |-> r]
LineStart == [t |-> "bol"]
LineEnd == [t |-> "eol"]
WordBoundary == [t |-> "wb"]

\* Most capturing groups a pattern of the source has.
MaxGroups == 2

Unset == << 0, 0 >>

\* The state of a match attempt: the position reached and the groups captured,
\* each as << first position, position after the last >>.
At(i) == [pos |-> i, caps |-> [n \in 1..MaxGroups |-> Unset]]

InClass(c, cls) == (c \in cls.chars) # cls.neg

IsWordAt(s, i) == i >= 1 /\ i <= Len(s) /\ s[i] \in WordChars

\* '$' under flag m.
IsLineEnd(s, i) == i = Len(s) + 1 \/ (i >= 1 /\ i <= Len(s) /\ s[i] = LineTerminator)

\* Where a run of characters of the class cls that starts at i stops.
RunEnd(s, i, cls) ==
    IF \E j \in i..Len(s) : ~InClass(s[j], cls)
    THEN CHOOSE j \in i..Len(s) :
            /\ ~InClass(s[j], cls)
            /\ \A k \in i..(j - 1) : InClass(s[k], cls)
    ELSE Len(s) + 1

RECURSIVE Match(_, _, _)
RECURSIVE MatchEach(_, _, _, _, _)
RECURSIVE MatchCat(_, _, _, _)
RECURSIVE MatchAlt(_, _, _, _)
RECURSIVE MatchMany(_, _, _)

\* The matches of re from each of the states sts[lo], ..., sts[hi] on, in order.
MatchEach(re, s, sts, lo, hi) ==
    IF lo > hi THEN << >>
    ELSE IF lo = hi THEN Match(re, s, sts[lo])
    ELSE LET mid == (lo + hi) \div 2
         IN  MatchEach(re, s, sts, lo, mid) \o MatchEach(re, s, sts, mid + 1, hi)

\* rs[k], rs[k + 1], ... one after the other from the states sts on.
MatchCat(rs, k, s, sts) ==
    IF sts = << >> \/ k > Len(rs) THEN sts
    ELSE MatchCat(rs, k + 1, s, MatchEach(rs[k], s, sts, 1, Len(sts)))

\* rs[k] | rs[k + 1] | ... : the earlier alternative is tried first.
MatchAlt(rs, k, s, st) ==
    IF k > Len(rs) THEN << >>
    ELSE Match(rs[k], s, st) \o MatchAlt(rs, k + 1, s, st)

\* r* for a pattern r that is not a single class: one more r first (greedy).
MatchMany(r, s, st) ==
    LET once == SelectSeq(Match(r, s, st), LAMBDA x : x.pos > st.pos)
    IN  MatchEach([t |-> "rep", r |-> r, min |-> 0, many |-> TRUE, lazy |-> FALSE],
                  s, once, 1, Len(once)) \o << st >>

Match(re, s, st) ==
    CASE re.t = "lit" ->
           IF OccursAt(s, st.pos, re.cs)
           THEN << [st EXCEPT !.pos = @ + Len(re.cs)] >>
           ELSE << >>
      [] re.t = "cls" ->
           IF st.pos <= Len(s) /\ InClass(s[st.pos], re)
           THEN << [st EXCEPT !.pos = @ + 1] >>
           ELSE << >>
      [] re.t = "bol" -> IF IsLineStart(s, st.pos) THEN << st >> ELSE << >>
      [] re.t = "eol" -> IF IsLineEnd(s, st.pos) THEN << st >> ELSE << >>
      [] re.t = "wb" ->
           IF IsWordAt(s, st.pos - 1) # IsWordAt(s, st.pos) THEN << st >> ELSE << >>
      [] re.t = "nla" -> IF Match(re.r, s, st) = << >> THEN << st >> ELSE << >>
      [] re.t = "grp" ->
           LET inner == Match(re.r, s, st)
           IN  [k \in 1..Len(inner) |->
                   [inner[k] EXCEPT !.caps[re.n] = << st.pos, inner[k].pos >>]]
      [] re.t = "cat" -> MatchCat(re.rs, 1, s, << st >>)
      [] re.t = "alt" -> MatchAlt(re.rs, 1, s, st)
      [] re.t = "rep" /\ re.r.t = "cls" ->
           \* the run of the class bounds the repetition; greedy tries the
           \* longest first, lazy the shortest
           LET last == IF re.many THEN RunEnd(s, st.pos, re.r)
                       ELSE IF st.pos <= Len(s) /\ InClass(s[st.pos], re.r)
                            THEN st.pos + 1 ELSE st.pos
               first == st.pos + re.min
               count == IF last >= first THEN last - first + 1 ELSE 0
           IN  [k \in 1..count |->
                   [st EXCEPT !.pos = IF re.lazy THEN first + k - 1 ELSE last - k + 1]]
      [] re.t = "rep" /\ re.r.t # "cls" /\ ~re.many ->
           Match(re.r, s, st) \o << st >>
      [] re.t = "rep" /\ re.r.t # "cls" /\ re.many /\ re.min = 0 ->
           MatchMany(re.r, s, st)
      [] re.t = "rep" /\ re.r.t # "cls" /\ re.many /\ re.min = 1 ->
           MatchEach([t |-> "rep", r |-> re.r, min |-> 0, many |-> TRUE, lazy |-> FALSE],
                     s, Match(re.r, s, st), 1, Len(Match(re.r, s, st)))

\* The characters a match of re can start with; any is TRUE when every
\* character, or the end of the subject, can start one.
RECURSIVE First(_)
RECURSIVE FirstOfCat(_, _)
RECURSIVE FirstOfAlt(_, _)

AnyFirst == [any |-> TRUE, chars |-> {}]

FirstOfCat(rs, k) ==
    IF k > Len(rs) THEN AnyFirst
    ELSE IF rs[k].t \in { "bol", "wb" } THEN FirstOfCat(rs, k + 1)
    ELSE First(rs[k])

FirstOfAlt(rs, k) ==
    IF k > Len(rs) THEN [any |-> FALSE, chars |-> {}]
    ELSE LET head == First(rs[k])
             rest == FirstOfAlt(rs, k + 1)
         IN  [any |-> head.any \/ rest.any, chars |-> head.chars \cup rest.chars]

First(re) ==
    CASE re.t = "lit" /\ re.cs # << >> -> [any |-> FALSE, chars |-> { re.cs[1] }]
      [] re.t = "cls" /\ ~re.neg -> [any |-> FALSE, chars |-> re.chars]
      [] re.t = "grp" -> First(re.r)
      [] re.t = "cat" -> FirstOfCat(re.rs, 1)
      [] re.t = "alt" -> FirstOfAlt(re.rs, 1)
      [] re.t = "rep" /\ re.min = 1 -> First(re.r)
      [] OTHER -> AnyFirst

\* The positions of s, from from on, where a match of re can start.
Candidates(re, s, from) ==
    LET first == First(re)
    IN  IF first.any THEN from..(Len(s) + 1)
        ELSE { i \in from..Len(s) : s[i] \in first.chars }

NoMatch == [found |-> FALSE, from |-> 0, to |-> 0, caps |-> At(0).caps]

MinOf(S) == CHOOSE i \in S : \A j \in S : i <= j

\* RegExp.prototype.exec / String.prototype.match without flag g: the match at
\* the leftmost position >= from where re matches.
Exec(re, s, from) ==
    LET starts == { i \in Candidates(re, s, from) : Match(re, s, At(i)) # << >> }
    IN  IF starts = {} THEN NoMatch
        ELSE LET i == MinOf(starts)
                 m == Match(re, s, At(i))[1]
             IN  [found |-> TRUE, from |-> i, to |-> m.pos, caps |-> m.caps]

\* RegExp.prototype.test
Test(re, s) == \E i \in Candidates(re, s, 1) : Match(re, s, At(i)) # << >>

\* The same for a pattern with flag i.
ExecI(re, s, from) == Exec(re, toLowerCase(s), from)
TestI(re, s) == Test(re, toLowerCase(s))

\* The text of group n of the match m, << >> for a group that took no part.
GroupText(s, m, n) == SubSeq(s, m.caps[n][1], m.caps[n][2] - 1)

-----------------------------------------------------------------------------
(* parseVulnerabilityReport (backend/parser.ts).                           *)

\* An optional value: << >> when undefined, << v >> when it is v.
Undefined == << >>
Defined(v) == << v >>

\* let title = 'Unknown Vulnerability'
UnknownTitle == << "Unknown Vulnerability" >>

\* /^#\s+(.+)$/m
TitleHeadingPattern ==
    Cat(<< LineStart, Lit(<< "#" >>), Plus(Space), Group(1, Plus(Dot)), LineEnd >>)

\* /##\s*Summary\s*\n+(.+)/i
SummaryPattern ==
    Cat(<< LitI(<< "#", "#" >>), Star(Space), LitI(<< "S", "u", "m", "m", "a", "r", "y" >>), Star(Space),
           Plus(Newline), Group(1, Plus(Dot)) >>)

\* /##\s*(?:Severity|Impact)\s*\n+(\w+)/i
ExplicitSeverityPattern ==
    Cat(<< LitI(<< "#", "#" >>), Star(Space),
           Alt(<< LitI(<< "S", "e", "v", "e", "r", "i", "t", "y" >>),
                  LitI(<< "I", "m", "p", "a", "c", "t" >>) >>),
           Star(Space), Plus(Newline), Group(1, Plus(Word)) >>)

\* (critical|high|medium|low)
RiskLevel ==
    Group(1, Alt(<< LitI(<< "c", "r", "i", "t", "i", "c", "a", "l" >>),
                    LitI(<< "h", "i", "g", "h" >>),
                    LitI(<< "m", "e", "d", "i", "u", "m" >>),
                    LitI(<< "l", "o", "w" >>) >>))

\* (?:severity|impact|risk)
RiskKeyword ==
    Alt(<< LitI(<< "s", "e", "v", "e", "r", "i", "t", "y" >>),
           LitI(<< "i", "m", "p", "a", "c", "t" >>),
           LitI(<< "r", "i", "s", "k" >>) >>)

\* /\b(critical|high|medium|low)\s+(?:severity|impact|risk)\b/i
LevelThenKeywordPattern ==
    Cat(<< WordBoundary, RiskLevel, Plus(Space), RiskKeyword, WordBoundary >>)

\* /(?:severity|impact|risk)[:\s]+\b(critical|high|medium|low)\b/i
KeywordThenLevelPattern ==
    Cat(<< RiskKeyword, Plus(ColonOrSpace), WordBoundary, RiskLevel, WordBoundary >>)

\* The ordered (type, pattern) list; Object.entries keeps the order of insertion.
vulnTypePatterns == <<
    [type |-> "reentrancy",
     pattern |->
        \* /reentrancy|re-entrancy/i
        Alt(<<
              LitI(<< "r", "e", "e", "n", "t", "r", "a", "n", "c", "y" >>),
              LitI(<< "r", "e", "-", "e", "n", "t", "r", "a", "n", "c", "y" >>) >>)],
    [type |-> "access-control",
     pattern |->
        \* /access[\s-]?control|unauthorized|permission|admin|upper[\s-]?bound|lower[\s-]?bound|bound.*lack|lack.*bound/i
        Alt(<<
              Cat(<< LitI(<< "a", "c", "c", "e", "s", "s" >>), Opt(SpaceOrHyphen), LitI(<< "c", "o", "n", "t", "r", "o", "l" >>) >>),
              LitI(<< "u", "n", "a", "u", "t", "h", "o", "r", "i", "z", "e", "d" >>),
              LitI(<< "p", "e", "r", "m", "i", "s", "s", "i", "o", "n" >>),
              LitI(<< "a", "d", "m", "i", "n" >>),
              Cat(<< LitI(<< "u", "p", "p", "e", "r" >>), Opt(SpaceOrHyphen), LitI(<< "b", "o", "u", "n", "d" >>) >>),
              Cat(<< LitI(<< "l", "o", "w", "e", "r" >>), Opt(SpaceOrHyphen), LitI(<< "b", "o", "u", "n", "d" >>) >>),
              Cat(<< LitI(<< "b", "o", "u", "n", "d" >>), Star(Dot), LitI(<< "l", "a", "c", "k" >>) >>),
              Cat(<< LitI(<< "l", "a", "c", "k" >>), Star(Dot), LitI(<< "b", "o", "u", "n", "d" >>) >>) >>)],
    [type |-> "slippage",
     pattern |->
        \* /slippage|sandwich.*attack|mev.*attack/i
        Alt(<<
              LitI(<< "s", "l", "i", "p", "p", "a", "g", "e" >>),
              Cat(<< LitI(<< "s", "a", "n", "d", "w", "i", "c", "h" >>), Star(Dot), LitI(<< "a", "t", "t", "a", "c", "k" >>) >>),
              Cat(<< LitI(<< "m", "e", "v" >>), Star(Dot), LitI(<< "a", "t", "t", "a", "c", "k" >>) >>) >>)],
    [type |-> "oracle",
     pattern |->
        \* /oracle|price[\s-]?feed|chainlink|stale.*price|price.*stale/i
        Alt(<<
              LitI(<< "o", "r", "a", "c", "l", "e" >>),
              Cat(<< LitI(<< "p", "r", "i", "c", "e" >>), Opt(SpaceOrHyphen), LitI(<< "f", "e", "e", "d" >>) >>),
              LitI(<< "c", "h", "a", "i", "n", "l", "i", "n", "k" >>),
              Cat(<< LitI(<< "s", "t", "a", "l", "e" >>), Star(Dot), LitI(<< "p", "r", "i", "c", "e" >>) >>),
              Cat(<< LitI(<< "p", "r", "i", "c", "e" >>), Star(Dot), LitI(<< "s", "t", "a", "l", "e" >>) >>) >>)],
    [type |-> "unchecked-return",
     pattern |->
        \* /unchecked[\s-]?return|return[\s-]?value.*unchecked/i
        Alt(<<
              Cat(<< LitI(<< "u", "n", "c", "h", "e", "c", "k", "e", "d" >>), Opt(SpaceOrHyphen), LitI(<< "r", "e", "t", "u", "r", "n" >>) >>),
              Cat(<< LitI(<< "r", "e", "t", "u", "r", "n" >>), Opt(SpaceOrHyphen), LitI(<< "v", "a", "l", "u", "e" >>), Star(Dot), LitI(<< "u", "n", "c", "h", "e", "c", "k", "e", "d" >>) >>) >>)],
    [type |-> "validation",
     pattern |->
        \* /validation|input.*check|parameter.*check|bound.*check|lacks.*validation|missing.*validation|lacks.*check|missing.*check/i
        Alt(<<
              LitI(<< "v", "a", "l", "i", "d", "a", "t", "i", "o", "n" >>),
              Cat(<< LitI(<< "i", "n", "p", "u", "t" >>), Star(Dot), LitI(<< "c", "h", "e", "c", "k" >>) >>),
              Cat(<< LitI(<< "p", "a", "r", "a", "m", "e", "t", "e", "r" >>), Star(Dot), LitI(<< "c", "h", "e", "c", "k" >>) >>),
              Cat(<< LitI(<< "b", "o", "u", "n", "d" >>), Star(Dot), LitI(<< "c", "h", "e", "c", "k" >>) >>),
              Cat(<< LitI(<< "l", "a", "c", "k", "s" >>), Star(Dot), LitI(<< "v", "a", "l", "i", "d", "a", "t", "i", "o", "n" >>) >>),
              Cat(<< LitI(<< "m", "i", "s", "s", "i", "n", "g" >>), Star(Dot), LitI(<< "v", "a", "l", "i", "d", "a", "t", "i", "o", "n" >>) >>),
              Cat(<< LitI(<< "l", "a", "c", "k", "s" >>), Star(Dot), LitI(<< "c", "h", "e", "c", "k" >>) >>),
              Cat(<< LitI(<< "m", "i", "s", "s", "i", "n", "g" >>), Star(Dot), LitI(<< "c", "h", "e", "c", "k" >>) >>) >>)],
    [type |-> "calculation",
     pattern |->
        \* /calculation|math|arithmetic|overflow|underflow/i
        Alt(<<
              LitI(<< "c", "a", "l", "c", "u", "l", "a", "t", "i", "o", "n" >>),
              LitI(<< "m", "a", "t", "h" >>),
              LitI(<< "a", "r", "i", "t", "h", "m", "e", "t", "i", "c" >>),
              LitI(<< "o", "v", "e", "r", "f", "l", "o", "w" >>),
              LitI(<< "u", "n", "d", "e", "r", "f", "l", "o", "w" >>) >>)],
    [type |-> "dos",
     pattern |->
        \* /denial[\s-]?of[\s-]?service|dos|grief|brick.*flow|brick.*user/i
        Alt(<<
              Cat(<< LitI(<< "d", "e", "n", "i", "a", "l" >>), Opt(SpaceOrHyphen), LitI(<< "o", "f" >>), Opt(SpaceOrHyphen), LitI(<< "s", "e", "r", "v", "i", "c", "e" >>) >>),
              LitI(<< "d", "o", "s" >>),
              LitI(<< "g", "r", "i", "e", "f" >>),
              Cat(<< LitI(<< "b", "r", "i", "c", "k" >>), Star(Dot), LitI(<< "f", "l", "o", "w" >>) >>),
              Cat(<< LitI(<< "b", "r", "i", "c", "k" >>), Star(Dot), LitI(<< "u", "s", "e", "r" >>) >>) >>)],
    [type |-> "deadline",
     pattern |->
        \* /deadline.*missing|missing.*deadline|timestamp.*check/i
        Alt(<<
              Cat(<< LitI(<< "d", "e", "a", "d", "l", "i", "n", "e" >>), Star(Dot), LitI(<< "m", "i", "s", "s", "i", "n", "g" >>) >>),
              Cat(<< LitI(<< "m", "i", "s", "s", "i", "n", "g" >>), Star(Dot), LitI(<< "d", "e", "a", "d", "l", "i", "n", "e" >>) >>),
              Cat(<< LitI(<< "t", "i", "m", "e", "s", "t", "a", "m", "p" >>), Star(Dot), LitI(<< "c", "h", "e", "c", "k" >>) >>) >>)],
    [type |-> "front-running",
     pattern |->
        \* /front[\s-]?run|mev(?!.*attack)/i
        Alt(<<
              Cat(<< LitI(<< "f", "r", "o", "n", "t" >>), Opt(SpaceOrHyphen), LitI(<< "r", "u", "n" >>) >>),
              Cat(<< LitI(<< "m", "e", "v" >>), NotAhead(Cat(<< Star(Dot), LitI(<< "a", "t", "t", "a", "c", "k" >>) >>)) >>) >>)],
    [type |-> "token-transfer",
     pattern |->
        \* /token[\s-]?transfer|erc20|erc721/i
        Alt(<<
              Cat(<< LitI(<< "t", "o", "k", "e", "n" >>), Opt(SpaceOrHyphen), LitI(<< "t", "r", "a", "n", "s", "f", "e", "r" >>) >>),
              LitI(<< "e", "r", "c", "2", "0" >>),
              LitI(<< "e", "r", "c", "7", "2", "1" >>) >>)],
    [type |-> "liquidity",
     pattern |->
        \* /liquidity|pool|amm/i
        Alt(<<
              LitI(<< "l", "i", "q", "u", "i", "d", "i", "t", "y" >>),
              LitI(<< "p", "o", "o", "l" >>),
              LitI(<< "a", "m", "m" >>) >>)],
    [type |-> "bridge",
     pattern |->
        \* /bridge|cross[\s-]?chain|layerzero/i
        Alt(<<
              LitI(<< "b", "r", "i", "d", "g", "e" >>),
              Cat(<< LitI(<< "c", "r", "o", "s", "s" >>), Opt(SpaceOrHyphen), LitI(<< "c", "h", "a", "i", "n" >>) >>),
              LitI(<< "l", "a", "y", "e", "r", "z", "e", "r", "o" >>) >>)] >>

\* The length of the document's head that the second scan reads.
BodyScanLength == 500

\* The loop without its break: the last matching type stays.
LastMatchingType(patterns, text) ==
    LET matching == { k \in 1..Len(patterns) : TestI(patterns[k].pattern, text) }
    IN  IF matching = {} THEN 0 ELSE CHOOSE k \in matching : \A j \in matching : j <= k

\* for (const [type, pattern] of Object.entries(vulnTypePatterns))
\*     if (pattern.test(text)) { vulnType = type; break; }
\* as the index of the type found, 0 when the loop ends without a match.
FirstMatchingType(patterns, text) ==
    LET matching == { k \in 1..Len(patterns) : TestI(patterns[k].pattern, text) }
    IN  IF matching = {} THEN 0 ELSE MinOf(matching)

Fence == << BackTick, BackTick, BackTick >>

\* /'''(\w+)?\n([\s\S]*?)'''/g, with ' for the backtick
codeBlockRegex ==
    Cat(<< Lit(Fence), Opt(Group(1, Plus(Word))), Newline,
           Group(2, LazyStar(AnyChar)), Lit(Fence) >>)

\* Number.prototype.toString of an index n >= 0.
RECURSIVE Decimal(_)
Decimal(n) ==
    LET digit == << "0", "1", "2", "3", "4", "5", "6", "7", "8", "9" >>[(n % 10) + 1]
    IN  IF n < 10 THEN << digit >> ELSE Decimal(n \div 10) \o << digit >>

SnippetLabel == << "Code Snippet" >>

\* 'Code Snippet ${++index}${match[1] ? ' (${match[1]})' : ''}'
ArtifactLabel(index, language) ==
    SnippetLabel \o << " " >> \o Decimal(index)
        \o (IF language # << >> THEN << " ", "(" >> \o language \o << ")" >> ELSE << >>)

\* while ((match = codeBlockRegex.exec(markdown)) !== null) artifacts.push(...)
\* from lastIndex = from - 1 on, index artifacts already pushed.
RECURSIVE ExtractArtifacts(_, _, _)
ExtractArtifacts(markdown, from, index) ==
    LET match == Exec(codeBlockRegex, markdown, from)
    IN  IF ~match.found THEN << >>
        ELSE << [label |-> ArtifactLabel(index + 1, GroupText(markdown, match, 1)),
                 content |-> Trim(GroupText(markdown, match, 2))] >>
             \o ExtractArtifacts(markdown, match.to, index + 1)

\* The day of the call, new Date().toISOString().split('T')[0].
Today == "YYYY-MM-DD"

\* The title without its initial value: undefined when neither pattern matches.
ExtractTitleWithoutDefault(markdown) ==
    LET heading == Exec(TitleHeadingPattern, markdown, 1)
        titleMatch == IF heading.found THEN heading
                      ELSE ExecI(SummaryPattern, markdown, 1)
    IN  IF titleMatch.found THEN Trim(GroupText(markdown, titleMatch, 1))
        ELSE Undefined

\* Lines 10-15: the title, from the first heading or from the Summary section.
ExtractTitle(markdown) ==
    LET heading == Exec(TitleHeadingPattern, markdown, 1)
        titleMatch == IF heading.found THEN heading
                      ELSE ExecI(SummaryPattern, markdown, 1)
    IN  IF titleMatch.found THEN Trim(GroupText(markdown, titleMatch, 1))
        ELSE UnknownTitle

\* The inline scan tried before the explicit section.
ExtractSeverityInlineFirst(markdown) ==
    LET explicitSeverity == ExecI(ExplicitSeverityPattern, markdown, 1)
        levelFirst == ExecI(LevelThenKeywordPattern, markdown, 1)
        severityMatch == IF levelFirst.found THEN levelFirst
                         ELSE ExecI(KeywordThenLevelPattern, markdown, 1)
    IN  IF severityMatch.found
        THEN Defined(toLowerCase(GroupText(markdown, severityMatch, 1)))
        ELSE IF explicitSeverity.found
        THEN Defined(toLowerCase(GroupText(markdown, explicitSeverity, 1)))
        ELSE Undefined

\* Lines 17-28: the severity, from the explicit section or from an inline phrase.
ExtractSeverity(markdown) ==
    LET explicitSeverity == ExecI(ExplicitSeverityPattern, markdown, 1)
        levelFirst == ExecI(LevelThenKeywordPattern, markdown, 1)
        severityMatch == IF levelFirst.found THEN levelFirst
                         ELSE ExecI(KeywordThenLevelPattern, markdown, 1)
    IN  IF explicitSeverity.found
        THEN Defined(toLowerCase(GroupText(markdown, explicitSeverity, 1)))
        ELSE IF severityMatch.found
        THEN Defined(toLowerCase(GroupText(markdown, severityMatch, 1)))
        ELSE Undefined

\* The type from the title alone, without the second loop.
ExtractVulnTypeFromTitleOnly(title, markdown) ==
    LET inTitle == FirstMatchingType(vulnTypePatterns, toLowerCase(title))
    IN  IF inTitle # 0 THEN vulnTypePatterns[inTitle].type ELSE "unknown"

\* The second loop over the whole document instead of its first 500 characters.
ExtractVulnTypeFromWholeBody(title, markdown) ==
    LET inTitle == FirstMatchingType(vulnTypePatterns, toLowerCase(title))
        inBody == FirstMatchingType(vulnTypePatterns, markdown)
    IN  IF inTitle # 0 THEN vulnTypePatterns[inTitle].type
        ELSE IF inBody # 0 THEN vulnTypePatterns[inBody].type
        ELSE "unknown"

\* Lines 30-66: the type, from the title and then from the document's head.
ExtractVulnType(title, markdown) ==
    LET titleLower == toLowerCase(title)
        inTitle == FirstMatchingType(vulnTypePatterns, titleLower)
        inBody == FirstMatchingType(vulnTypePatterns, Slice0(markdown, BodyScanLength))
    IN  IF inTitle # 0 THEN vulnTypePatterns[inTitle].type
        ELSE IF inBody # 0 THEN vulnTypePatterns[inBody].type
        ELSE "unknown"

parseVulnerabilityReport(markdown, source) ==
    LET title == ExtractTitle(markdown)
    IN  [raw |-> markdown,
         metadata |-> [title |-> title,
                       severity |-> ExtractSeverity(markdown),
                       vulnType |-> ExtractVulnType(title, markdown),
                       source |-> source,
                       date |-> Today],
         artifacts |-> ExtractArtifacts(markdown, 1, 0)]

-----------------------------------------------------------------------------
(* Bounds and inputs of the request model.                                 *)

\* Most references a request's context holds.
MaxContextReferences == 2

\* Length of the report that is longer than FALLBACK_SUMMARY_LENGTH.
LongReportLength == 650

NodeEnvs == {"production", "development", "test", "unset"}
LlmFlags == {"true", "unset"}
ModelIds == {DEFAULT_MODEL_ID, FALLBACK_MODEL_ID, "gpt-4o"}

Report(raw, title, artifacts) ==
    [raw |-> raw, metadata |-> [title |-> title], artifacts |-> artifacts]

\* Reports as parseVulnerabilityReport returns them: white space only; a
\* heading and a sentence; a heading and a fenced block.
ShortReports ==
    { Report(<< " ", "\n", " " >>, UnknownTitle, << >>),
      Report(<< "#", " ", "V", "\n", "a", "." >>, << "V" >>, << >>),
      Report(<< "#", " ", "V", "\n", BackTick, BackTick, BackTick, "\n", "x", "\n",
                BackTick, BackTick, BackTick >>,
             << "V" >>, << [label |-> ArtifactLabel(1, << >>), content |-> << "x" >>] >>) }

\* A report longer than FALLBACK_SUMMARY_LENGTH, with a full stop past the
\* minimal cut of summarize.
LongReport ==
    Report([i \in 1..LongReportLength |->
               CASE i = 1 -> "#" [] i = 2 -> " " [] i = 3 -> "V" [] i = 4 -> "\n"
                 [] i = 300 -> "." [] OTHER -> "a"],
           << "V" >>, << >>)

ContextReferences ==
    { [id |-> "a", title |-> << "Ref A" >>, content |-> << "#", " ", "Ref A", "\n", "x" >>],
      [id |-> "b", title |-> << "b" >>, content |-> << >>] }

RECURSIVE SeqsUpTo(_, _)
SeqsUpTo(S, n) ==
    IF n = 0 THEN { << >> }
    ELSE LET shorter == SeqsUpTo(S, n - 1)
         IN  shorter \cup { Append(q, x) : q \in shorter, x \in S }

Contexts ==
    [report : ShortReports,
     referenceBreakdowns : SeqsUpTo(ContextReferences, MaxContextReferences),
     templates : { << >> }]
    \cup { [report |-> LongReport, referenceBreakdowns |-> << >>, templates |-> << >>] }

-----------------------------------------------------------------------------
(* The generation backends.                                                *)

\* Faulty variant: the flag alone decides, in production too.
LocalFlagAlone == llmFlag = "true"

\* Faulty variant: the flag counts in development only.
LocalInDevelopmentOnly == llmFlag = "true" /\ nodeEnv = "development"

\* const LOCAL_LLM_ENABLED
LOCAL_LLM_ENABLED == llmFlag = "true" /\ nodeEnv # "production"

NoError == [isError |-> FALSE, name |-> "", message |-> << >>]
Ok(text) == [ok |-> TRUE, text |-> text, error |-> NoError]
Throw(name, message) ==
    [ok |-> FALSE, text |-> << >>, error |-> [isError |-> TRUE, name |-> name, message |-> message]]
ThrowValue == [ok |-> FALSE, text |-> << >>, error |-> NoError]

\* How a backend call can fail before it yields text.
FailureKinds == {"network", "timeout", "status", "backendError", "malformed"}

\* Texts a backend returns: nothing; white space; a think block only; labelled
\* reasoning only; reasoning followed by prose; prose; the four sections.
SampleOutputs ==
    { << >>,
      << " ", "\n" >>,
      ThinkOpen \o << "x" >> \o ThinkClose,
      << "#", "#", " ", "R", "e", "a", "s", "o", "n", "i", "n", "g", ":", " ", "x" >>,
      ThinkOpen \o << "x" >> \o ThinkClose \o << "\n", "h", "i" >>,
      << "h", "i" >>,
      Join(<< TitleHeading(<< "V" >>), VulnerabilityHeading, << "a" >>, EvidenceHeading,
              << "b" >>, BlueprintHeading, << "c" >> >>, BlankLine) }

FailureResponses ==
    { [kind |-> "network", text |-> << >>],
      [kind |-> "timeout", text |-> << >>],
      [kind |-> "status", text |-> << >>],
      [kind |-> "backendError", text |-> << "model not found" >>],
      [kind |-> "malformed", text |-> << "<", "h", "t", "m", "l", ">" >>] }

TextResponses == { [kind |-> "text", text |-> t] : t \in SampleOutputs }

\* The hosted SDK may also reject with a value that is no Error object.
HostedResponses == FailureResponses \cup TextResponses \cup { [kind |-> "nonError", text |-> << >>] }
LocalResponses == FailureResponses \cup TextResponses

Responses == IF LOCAL_LLM_ENABLED THEN LocalResponses ELSE HostedResponses

\* generateText of the hosted SDK: resolves with {text} or rejects.
generateText(resp) ==
    CASE resp.kind = "text" -> Ok(resp.text)
      [] resp.kind = "network" -> Throw("TypeError", << "fetch failed" >>)
      [] resp.kind = "timeout" -> Throw("TimeoutError", << "The operation was aborted due to timeout" >>)
      [] resp.kind = "status" -> Throw("APICallError", << "Internal Server Error" >>)
      [] resp.kind = "backendError" -> Throw("APICallError", resp.text)
      [] resp.kind = "malformed" -> Throw("JSONParseError", << "JSON parsing failed" >>)
      [] OTHER -> ThrowValue

callLocalModel(resp) ==
    CASE resp.kind = "network" -> Throw("TypeError", << "fetch failed" >>)
      [] resp.kind = "timeout" -> Throw("TimeoutError", << "The operation was aborted due to timeout" >>)
      [] resp.kind = "status" ->
            Throw("Error", << "Local model request failed (500):", " " >> \o resp.text)
      [] resp.kind = "malformed" -> Throw("SyntaxError", << "Unexpected token < in JSON" >>)
      [] resp.kind = "backendError" ->
            Throw("Error", << "Local model error:", " " >> \o resp.text)
      [] OTHER ->
            IF Trim(resp.text) = << >>
            THEN Throw("Error", << "Local model returned an empty response." >>)
            ELSE Ok(resp.text)

\* Faulty variant: the output is not checked again after sanitisation.
tryGenerateMarkdownKeepingEmpty(resp) ==
    LET rawOutput ==
            IF LOCAL_LLM_ENABLED
            THEN callLocalModel(resp)
            ELSE LET got == generateText(resp)
                 IN  IF got.ok /\ got.text = << >>
                     THEN Throw("Error", << "Model returned empty response." >>)
                     ELSE got
    IN  IF ~rawOutput.ok
        THEN rawOutput
        ELSE Ok(sanitizeModelResponse(rawOutput.text))

tryGenerateMarkdown(resp) ==
    LET rawOutput ==
            IF LOCAL_LLM_ENABLED
            THEN callLocalModel(resp)
            ELSE LET got == generateText(resp)
                 IN  IF got.ok /\ got.text = << >>
                     THEN Throw("Error", << "Model returned empty response." >>)
                     ELSE got
    IN  IF ~rawOutput.ok
        THEN rawOutput
        ELSE LET cleaned == sanitizeModelResponse(rawOutput.text)
             IN  IF cleaned = << >>
                 THEN Throw("Error", << "Model returned empty response after sanitization." >>)
                 ELSE Ok(cleaned)

-----------------------------------------------------------------------------
(* generateBreakdownDocument.                                              *)

Pending == [status |-> "pending", tier |-> "none", document |-> << >>]

\* The document of a tier whose backend call succeeded.
TierResult(tier, markdown) ==
    [status |-> "returned", tier |-> tier,
     document |-> Returned(assembleDocument(markdown, buildGliderSkeleton))]

\* The static fallback document.
StaticResult(ctx, error) ==
    [status |-> "returned", tier |-> "static",
     document |-> Returned(assembleDocument(buildFallbackDocument(ctx, error),
                                            buildGliderSkeleton))]

\* The backend and model a call of tryGenerateMarkdown(context, id) goes to.
CallOf(tier, id) ==
    [tier |-> tier,
     backend |-> IF LOCAL_LLM_ENABLED THEN "local" ELSE "hosted",
     model |-> IF LOCAL_LLM_ENABLED THEN LOCAL_LLM_MODEL ELSE id]

\* Faulty variant: both tiers are started together on entry.
CallsAtEntryBoth == << CallOf("primary", modelId), CallOf("fallback", FALLBACK_MODEL_ID) >>

\* The backend calls issued on entry, before the first await.
CallsAtEntry == << CallOf("primary", modelId) >>

\* Faulty variant: the fallback is retried even when it is the primary model.
FallbackEligibleIgnoringModel == ~LOCAL_LLM_ENABLED

\* if (!LOCAL_LLM_ENABLED && modelId !== FALLBACK_MODEL_ID)
FallbackEligible == ~LOCAL_LLM_ENABLED /\ modelId # FALLBACK_MODEL_ID

\* Faulty variant: a primary success is still followed by the fallback call.
PrimaryStepLastWins(outcome) ==
    IF FallbackEligible
    THEN [pc |-> "fallback",
          result |-> IF outcome.ok THEN TierResult("primary", outcome.text) ELSE Pending,
          failure |-> outcome.error, staticBuilt |-> FALSE,
          issued |-> << CallOf("fallback", FALLBACK_MODEL_ID) >>]
    ELSE IF outcome.ok
    THEN [pc |-> "done", result |-> TierResult("primary", outcome.text),
          failure |-> NoError, staticBuilt |-> FALSE, issued |-> << >>]
    ELSE [pc |-> "done", result |-> StaticResult(context, outcome.error),
          failure |-> outcome.error, staticBuilt |-> TRUE, issued |-> << >>]

\* Faulty variant: a timeout of the primary call is thrown on to the caller.
PrimaryStepRethrowingTimeout(outcome) ==
    IF outcome.ok
    THEN [pc |-> "done", result |-> TierResult("primary", outcome.text),
          failure |-> NoError, staticBuilt |-> FALSE, issued |-> << >>]
    ELSE IF outcome.error.name = "TimeoutError"
    THEN [pc |-> "done", result |-> [status |-> "thrown", tier |-> "none", document |-> << >>],
          failure |-> outcome.error, staticBuilt |-> FALSE, issued |-> << >>]
    ELSE IF FallbackEligible
    THEN [pc |-> "fallback", result |-> Pending,
          failure |-> outcome.error, staticBuilt |-> FALSE,
          issued |-> << CallOf("fallback", FALLBACK_MODEL_ID) >>]
    ELSE [pc |-> "done", result |-> StaticResult(context, outcome.error),
          failure |-> outcome.error, staticBuilt |-> TRUE, issued |-> << >>]

\* The try block and its catch up to the next await, given the primary call's outcome.
PrimaryStep(outcome) ==
    IF outcome.ok
    THEN [pc |-> "done", result |-> TierResult("primary", outcome.text),
          failure |-> NoError, staticBuilt |-> FALSE, issued |-> << >>]
    ELSE IF FallbackEligible
    THEN [pc |-> "fallback", result |-> Pending,
          failure |-> outcome.error, staticBuilt |-> FALSE,
          issued |-> << CallOf("fallback", FALLBACK_MODEL_ID) >>]
    ELSE [pc |-> "done", result |-> StaticResult(context, outcome.error),
          failure |-> outcome.error, staticBuilt |-> TRUE, issued |-> << >>]

\* Faulty variant: the fallback call is not wrapped in a try block of its own.
FallbackStepUncaught(outcome) ==
    IF outcome.ok
    THEN [pc |-> "done", result |-> TierResult("fallback", outcome.text),
          failure |-> failure, staticBuilt |-> FALSE, issued |-> << >>]
    ELSE [pc |-> "done", result |-> [status |-> "thrown", tier |-> "none", document |-> << >>],
          failure |-> failure, staticBuilt |-> FALSE, issued |-> << >>]

\* Faulty variant: 'failure' keeps the primary call's error.
FallbackStepKeepingPrimaryFailure(outcome) ==
    IF outcome.ok
    THEN [pc |-> "done", result |-> TierResult("fallback", outcome.text),
          failure |-> failure, staticBuilt |-> FALSE, issued |-> << >>]
    ELSE [pc |-> "done", result |-> StaticResult(context, failure),
          failure |-> failure, staticBuilt |-> TRUE, issued |-> << >>]

\* The inner try block and what follows it, given the fallback call's outcome.
FallbackStep(outcome) ==
    IF outcome.ok
    THEN [pc |-> "done", result |-> TierResult("fallback", outcome.text),
          failure |-> failure, staticBuilt |-> FALSE, issued |-> << >>]
    ELSE [pc |-> "done", result |-> StaticResult(context, outcome.error),
          failure |-> outcome.error, staticBuilt |-> TRUE, issued |-> << >>]

TiersOf(issued) == { issued[i].tier : i \in 1..Len(issued) }

InitRequest ==
    /\ nodeEnv \in NodeEnvs
    /\ llmFlag \in LlmFlags
    /\ modelId \in ModelIds
    /\ context \in Contexts
    /\ pc = "start"
    /\ inFlight = {}
    /\ calls = << >>
    /\ attempts = << >>
    /\ failure = NoError
    /\ staticBuilt = FALSE
    /\ result = Pending

\* Entry of generateBreakdownDocument up to the await of the primary call.
CallPrimary ==
    /\ pc = "start"
    /\ pc' = "primary"
    /\ calls' = calls \o CallsAtEntry
    /\ inFlight' = inFlight \cup TiersOf(CallsAtEntry)
    /\ UNCHANGED << nodeEnv, llmFlag, modelId, context, attempts, failure,
                    staticBuilt, result, references, digest >>
    /\ UNCHANGED << parserVars, sanitizerVars, assemblerVars, routeVars >>

Apply(tier, resp, outcome, step) ==
    /\ attempts' = Append(attempts, [tier |-> tier, response |-> resp, outcome |-> outcome])
    /\ pc' = step.pc
    /\ result' = step.result
    /\ failure' = step.failure
    /\ staticBuilt' = step.staticBuilt
    /\ calls' = calls \o step.issued
    /\ inFlight' = (inFlight \ {tier}) \cup TiersOf(step.issued)
    /\ UNCHANGED << nodeEnv, llmFlag, modelId, context, references, digest >>
    /\ UNCHANGED << parserVars, sanitizerVars, assemblerVars, routeVars >>

\* The primary call settles; the handler runs to its return or to the next await.
PrimaryCompletes ==
    /\ pc = "primary"
    /\ "primary" \in inFlight
    /\ \E resp \in Responses :
          \E outcome \in { tryGenerateMarkdown(resp) } :
             \E step \in { PrimaryStep(outcome) } :
                Apply("primary", resp, outcome, step)

\* The fallback call settles; the handler runs to its return.
FallbackCompletes ==
    /\ pc = "fallback"
    /\ "fallback" \in inFlight
    /\ \E resp \in Responses :
          \E outcome \in { tryGenerateMarkdown(resp) } :
             \E step \in { FallbackStep(outcome) } :
                Apply("fallback", resp, outcome, step)

-----------------------------------------------------------------------------
(* buildReferenceDigest.                                                   *)

\* Most entries of the reference corpus.
MaxCorpus == 5

\* Length of a reference longer than MAX_REFERENCE_LENGTH.
LongReferenceLength == 3000

\* Length of a reference shorter than MAX_REFERENCE_LENGTH.
NoteReferenceLength == 1200

\* Entries of the breakdowns directory: an empty file, a short one, a long one.
CorpusEntries == {"empty", "note", "long"}

\* The BreakdownReference loaded for an entry.
Reference(entry) ==
    [id |-> entry,
     title |-> << entry >>,
     content |-> CASE entry = "empty" -> << >>
                   [] entry = "note" -> [i \in 1..NoteReferenceLength |-> "n"]
                   [] OTHER -> [i \in 1..LongReferenceLength |-> "x"]]

Loaded(entries) == [i \in 1..Len(entries) |-> Reference(entries[i])]

\* '\n\n---\n\n'
PartSeparator == << "\n", "\n", "-", "-", "-", "\n", "\n" >>

\* The for loop of buildReferenceDigest from its i-th reference on.
RECURSIVE DigestLoop(_, _, _, _)
DigestLoop(refs, i, consumed, parts) ==
    IF i > Len(refs) \/ consumed >= MAX_TOTAL_REFERENCE_LENGTH
    THEN [consumed |-> consumed, parts |-> parts]
    ELSE LET remaining == MAX_TOTAL_REFERENCE_LENGTH - consumed
             clipped == truncate(refs[i].content, Min(MAX_REFERENCE_LENGTH, remaining))
         IN  DigestLoop(refs, i + 1, consumed + Len(clipped),
                        Append(parts, << "#", "#", "#", " " >> \o refs[i].title
                                      \o NewLine \o Trim(clipped)))

\* buildReferenceDigest, with the counters of its loop.
buildReferenceDigest(refs) ==
    IF Len(refs) = 0
    THEN [built |-> TRUE, consumed |-> 0, included |-> 0,
          length |-> Len(<< "No additional breakdown references available." >>)]
    ELSE LET loop == DigestLoop(refs, 1, 0, << >>)
         IN  [built |-> TRUE, consumed |-> loop.consumed, included |-> Len(loop.parts),
              length |-> Len(Join(loop.parts, PartSeparator))]

NoDigest == [built |-> FALSE, consumed |-> 0, included |-> 0, length |-> 0]

\* The breakdowns directory gains an entry.
AddReference ==
    /\ Len(references) < MaxCorpus
    /\ \E entry \in CorpusEntries : references' = Append(references, entry)
    /\ digest' = NoDigest
    /\ UNCHANGED << requestVars, parserVars, sanitizerVars, assemblerVars, routeVars >>

\* buildPrompt digests the references loaded from the directory.
BuildDigest ==
    /\ ~digest.built
    /\ \E d \in { buildReferenceDigest(Loaded(references)) } : digest' = d
    /\ UNCHANGED << references >>
    /\ UNCHANGED << requestVars, parserVars, sanitizerVars, assemblerVars, routeVars >>

InitDigest ==
    /\ references = << >>
    /\ digest = NoDigest

\* No call of assembleDocument is under way.
InitAssemblerIdle ==
    /\ assembleArgs = << >>
    /\ assembled = Undefined

\* No request has reached the route.
InitRouteIdle ==
    /\ store = << >>
    /\ requests = << >>

\* The digest alone, beside a request that has not started.
InitDigestAlone ==
    /\ references = << >>
    /\ digest = NoDigest
    /\ nodeEnv = "development"
    /\ llmFlag = "unset"
    /\ modelId = DEFAULT_MODEL_ID
    /\ context = [report |-> LongReport, referenceBreakdowns |-> << >>, templates |-> << >>]
    /\ pc = "start"
    /\ inFlight = {}
    /\ calls = << >>
    /\ attempts = << >>
    /\ failure = NoError
    /\ staticBuilt = FALSE
    /\ result = Pending
    /\ reportBlocks = << >>
    /\ body = << >>
    /\ parsedReport = Undefined
    /\ backendText = << >>
    /\ sanitized = Undefined
    /\ InitAssemblerIdle
    /\ InitRouteIdle

Init ==
    /\ InitRequest
    /\ InitDigest
    /\ reportBlocks = << >>
    /\ body = << >>
    /\ parsedReport = Undefined
    /\ backendText = << >>
    /\ sanitized = Undefined
    /\ InitAssemblerIdle
    /\ InitRouteIdle

Next == CallPrimary \/ PrimaryCompletes \/ FallbackCompletes

Spec == Init /\ [][Next]_vars

\* The reference digest over a growing corpus.
NextDigest == AddReference \/ BuildDigest

SpecDigest == InitDigestAlone /\ [][NextDigest]_vars


-----------------------------------------------------------------------------
(* Reports as their author wrote them: a sequence of blocks, each a whole  *)
(* number of lines.  The parser sees only the characters; what a block is  *)
(* (a heading, a fenced block, a severity section ...) is known here from  *)
(* the way the document was put together.                                  *)

\* Most blocks a report has.
MaxBlocks == 2

\* Terms an author uses, with the type of vulnerability each one is a cue of.
Vault == [text |-> << "v", "a", "u", "l", "t" >>, cue |-> "none"]
Admin == [text |-> << "a", "d", "m", "i", "n" >>, cue |-> "access-control"]
Validation == [text |-> << "v", "a", "l", "i", "d", "a", "t", "i", "o", "n" >>, cue |-> "validation"]
Reentrancy == [text |-> << "r", "e", "e", "n", "t", "r", "a", "n", "c", "y" >>, cue |-> "reentrancy"]
Oracle == [text |-> << "o", "r", "a", "c", "l", "e" >>, cue |-> "oracle"]
Bridge == [text |-> << "b", "r", "i", "d", "g", "e" >>, cue |-> "bridge"]

\* '# <terms>'
HeadingBlock(terms) == [kind |-> "heading", terms |-> terms]
\* '## Summary' and the line of content under it
SummaryBlock(terms) == [kind |-> "summary", terms |-> terms]
\* a sentence
ParagraphBlock(terms) == [kind |-> "paragraph", terms |-> terms]
\* a line of BodyScanLength characters that are a cue of nothing
PaddingBlock == [kind |-> "padding", terms |-> << >>]
\* a line that holds '#' and nothing else
HashLineBlock == [kind |-> "hash", terms |-> << >>]
\* '## Severity' or '## Impact' and the word under it
SeverityBlock(header, word) ==
    [kind |-> "severity", terms |-> << >>, header |-> header, word |-> word]
\* '<level> <keyword>.' or '<keyword>: <level>.'
PhraseBlock(order, level, keyword) ==
    [kind |-> "phrase", terms |-> << >>, order |-> order, level |-> level,
     keyword |-> keyword]
\* a fenced code block: the opening fence with its language tag, the lines of
\* content, the closing fence
FenceBlock(language, content) ==
    [kind |-> "fence", terms |-> << >>, language |-> language, content |-> content]
\* an opening fence that nothing closes
OpenerBlock == [kind |-> "opener", terms |-> << >>]

TermsText(terms) == Join([k \in 1..Len(terms) |-> terms[k].text], << " " >>)

Render(block) ==
    CASE block.kind = "heading" -> << "#", " " >> \o TermsText(block.terms) \o NewLine
      [] block.kind = "summary" ->
           << "#", "#", " " >> \o << "S", "u", "m", "m", "a", "r", "y" >> \o NewLine
               \o TermsText(block.terms) \o NewLine
      [] block.kind = "paragraph" -> TermsText(block.terms) \o << "." >> \o NewLine
      [] block.kind = "padding" -> [i \in 1..BodyScanLength |-> "z"] \o NewLine
      [] block.kind = "hash" -> << "#" >> \o NewLine
      [] block.kind = "severity" ->
           << "#", "#", " " >> \o block.header \o NewLine \o block.word \o NewLine
      [] block.kind = "phrase" /\ block.order = "level first" ->
           block.level \o << " " >> \o block.keyword \o << "." >> \o NewLine
      [] block.kind = "phrase" /\ block.order = "keyword first" ->
           block.keyword \o << ":", " " >> \o block.level \o << "." >> \o NewLine
      [] block.kind = "fence" ->
           Fence \o block.language \o NewLine \o block.content \o NewLine
               \o Fence \o NewLine
      [] block.kind = "opener" -> Fence \o NewLine

RECURSIVE RenderAll(_)
RenderAll(blocks) ==
    IF blocks = << >> THEN << >> ELSE Render(Head(blocks)) \o RenderAll(Tail(blocks))

\* Reports about the title and the type of the vulnerability.
TitleBlocks ==
    { HeadingBlock(<< Vault >>),
      HeadingBlock(<< Validation, Admin >>),
      HeadingBlock(<< Admin, Validation >>),
      SummaryBlock(<< Vault >>),
      SummaryBlock(<< Oracle >>),
      ParagraphBlock(<< Reentrancy >>),
      ParagraphBlock(<< Bridge >>),
      PaddingBlock,
      HashLineBlock }

\* Reports about the severity.
SeverityBlocks ==
    { SeverityBlock(<< "S", "e", "v", "e", "r", "i", "t", "y" >>, << "H", "i", "g", "h" >>),
      SeverityBlock(<< "I", "m", "p", "a", "c", "t" >>, << "F", "u", "n", "d", "s" >>),
      PhraseBlock("level first", << "l", "o", "w" >>, << "i", "m", "p", "a", "c", "t" >>),
      PhraseBlock("keyword first", << "H", "i", "g", "h" >>, << "S", "e", "v", "e", "r", "i", "t", "y" >>),
      ParagraphBlock(<< Vault >>) }

\* Reports about the code they quote.
FenceBlocks ==
    { FenceBlock(<< >>, << "x" >>),
      FenceBlock(<< "j", "s" >>, << " ", "y", " " >>),
      FenceBlock(<< "c", "+", "+" >>, << "w" >>),
      ParagraphBlock(<< Vault >>),
      OpenerBlock }

ReportDocuments ==
    SeqsUpTo(TitleBlocks, MaxBlocks) \cup SeqsUpTo(SeverityBlocks, MaxBlocks)
        \cup SeqsUpTo(FenceBlocks, MaxBlocks)

-----------------------------------------------------------------------------
(* Backend outputs handed to sanitizeModelResponse.                        *)

\* Most lines, and most pieces, of a backend output.
MaxLines == 3
MaxPieces == 5

\* Lines a model writes: labelled headings and paragraphs, prose, a blank line.
OutputLines ==
    { << "#", "#", " ", "R", "e", "a", "s", "o", "n", "i", "n", "g" >>,
      << "#", "#", " ", "R", "e", "a", "s", "o", "n", "i", "n", "g", ":", " ", "b", "l", "a", "h" >>,
      << " ", " " >> \o << "T", "h", "o", "u", "g", "h", "t", "s", " ", "o", "n", " ", "i", "t" >>,
      << "f", "o", "o" >>,
      << "T", "h", "e", " ", "a", "n", "a", "l", "y", "s", "i", "s", "." >>,
      << >> }

\* Pieces of think markup, whole and split.
OutputPieces ==
    { ThinkOpen, ThinkClose, << "<", "t", "h", "i" >>, << "n", "k", ">" >>, << "x" >> }

BackendTexts ==
    { Join(lines, NewLine) : lines \in SeqsUpTo(OutputLines, MaxLines) }
        \cup { Join(pieces, << >>) : pieces \in SeqsUpTo(OutputPieces, MaxPieces) }

-----------------------------------------------------------------------------
(* parseVulnerabilityReport on a report, and sanitizeModelResponse on a    *)
(* backend output.                                                         *)

\* const { markdown, source } = body;
\* const parsedReport = await parseVulnerabilityReport(markdown, source)
Parse ==
    /\ parsedReport = Undefined
    /\ \E r \in { parseVulnerabilityReport(body, Undefined) } : parsedReport' = Defined(r)
    /\ UNCHANGED << reportBlocks, body >>
    /\ UNCHANGED << requestVars, digestVars, sanitizerVars, assemblerVars, routeVars >>

\* const cleaned = sanitizeModelResponse(text)
Sanitize ==
    /\ sanitized = Undefined
    /\ \E c \in { sanitizeModelResponse(backendText) } : sanitized' = Defined(c)
    /\ UNCHANGED << backendText >>
    /\ UNCHANGED << requestVars, digestVars, parserVars, assemblerVars, routeVars >>

InitRequestIdle ==
    /\ nodeEnv = "development"
    /\ llmFlag = "unset"
    /\ modelId = DEFAULT_MODEL_ID
    /\ context = [report |-> LongReport, referenceBreakdowns |-> << >>, templates |-> << >>]
    /\ pc = "start"
    /\ inFlight = {}
    /\ calls = << >>
    /\ attempts = << >>
    /\ failure = NoError
    /\ staticBuilt = FALSE
    /\ result = Pending

InitParserIdle ==
    /\ reportBlocks = << >>
    /\ body = << >>
    /\ parsedReport = Undefined

InitSanitizerIdle ==
    /\ backendText = << >>
    /\ sanitized = Undefined

\* A report arrives at the route.
InitParser ==
    /\ reportBlocks \in ReportDocuments
    /\ body = RenderAll(reportBlocks)
    /\ parsedReport = Undefined
    /\ InitRequestIdle
    /\ InitDigest
    /\ InitSanitizerIdle
    /\ InitAssemblerIdle
    /\ InitRouteIdle

\* A backend has answered.
InitSanitizer ==
    /\ backendText \in BackendTexts
    /\ sanitized = Undefined
    /\ InitRequestIdle
    /\ InitDigest
    /\ InitParserIdle
    /\ InitAssemblerIdle
    /\ InitRouteIdle

NextParser == Parse

SpecParser == InitParser /\ [][NextParser]_vars

NextSanitizer == Sanitize

SpecSanitizer == InitSanitizer /\ [][NextSanitizer]_vars

-----------------------------------------------------------------------------
(* assembleDocument on a body and a skeleton.                              *)

\* Most pieces of a body and of a skeleton handed to assembleDocument.
MaxBodyPieces == 3
MaxSkeletonPieces == 2

\* What bodies are written from: white space, a letter, a heading, a fence.
BodyPieces == { << " " >>, << "\n" >>, << "a" >>, << "#", " ", "T", "\n" >>, FenceClose }

\* What skeletons are written from: white space, a line of code, a fence.
SkeletonPieces == { << " " >>, << "\n" >>, << "x", "=", "1" >>, FenceClose }

Bodies == { Join(pieces, << >>) : pieces \in SeqsUpTo(BodyPieces, MaxBodyPieces) }

Skeletons ==
    { Join(pieces, << >>) : pieces \in SeqsUpTo(SkeletonPieces, MaxSkeletonPieces) }
        \cup { buildGliderSkeleton }

\* const finalDoc = assembleDocument(markdown, skeleton)
Assemble ==
    /\ assembled = Undefined
    /\ \E doc \in { assembleDocument(assembleArgs.markdown, assembleArgs.skeleton) } :
          assembled' = Defined(doc)
    /\ UNCHANGED << assembleArgs >>
    /\ UNCHANGED << requestVars, digestVars, parserVars, sanitizerVars, routeVars >>

\* A body and a skeleton are handed to assembleDocument.
InitAssembler ==
    /\ assembleArgs \in [markdown : Bodies, skeleton : Skeletons]
    /\ assembled = Undefined
    /\ InitRequestIdle
    /\ InitDigest
    /\ InitParserIdle
    /\ InitSanitizerIdle
    /\ InitRouteIdle

NextAssembler == Assemble

SpecAssembler == InitAssembler /\ [][NextAssembler]_vars

-----------------------------------------------------------------------------
(* The content store (templates/gliders, templates/breakdowns) and its     *)
(* loaders.                                                                *)

Entry(name, isFile, readable, content) ==
    [name |-> name, isFile |-> isFile, readable |-> readable, content |-> content]

Directory(readable, entries) == [readable |-> readable, entries |-> entries]

PyExtension == << ".", "p", "y" >>
MdExtension == << ".", "m", "d" >>

GliderFile == Entry(<< "g" >> \o PyExtension, TRUE, TRUE, << "x", "=", "1" >>)
NotesFile == Entry(<< "n", ".", "t", "x", "t" >>, TRUE, TRUE, << "n" >>)
UnreadableGliderFile == Entry(<< "h" >> \o PyExtension, TRUE, FALSE, << >>)

\* The gliders directory: a template beside a file that is none; a template
\* beside one that cannot be read; a directory that cannot be read.
CompleteGliders == Directory(TRUE, << GliderFile, NotesFile >>)
DamagedGliders == Directory(TRUE, << GliderFile, UnreadableGliderFile >>)
UnreadableDirectory == Directory(FALSE, << >>)

GliderDirectories == { CompleteGliders, DamagedGliders, UnreadableDirectory }

HeadedReference == Entry(<< "b" >> \o MdExtension, TRUE, TRUE, << "#", " ", "B", "\n", "x" >>)
PlainReference == Entry(<< "a" >> \o MdExtension, TRUE, TRUE, << "y" >>)
UnreadableReference == Entry(<< "b" >> \o MdExtension, TRUE, FALSE, << >>)
Subdirectory == Entry(<< "d" >> \o MdExtension, FALSE, FALSE, << >>)

\* The breakdowns directory: two references listed out of order beside a
\* subdirectory; a reference beside one that cannot be read; a directory that
\* cannot be read.
CompleteBreakdowns == Directory(TRUE, << HeadedReference, PlainReference, Subdirectory >>)
DamagedBreakdowns == Directory(TRUE, << PlainReference, UnreadableReference >>)

BreakdownDirectories == { CompleteBreakdowns, DamagedBreakdowns, UnreadableDirectory }

Stores == [gliders : GliderDirectories, breakdowns : BreakdownDirectories]

\* fs.readdir: the entries, or a rejection.
readdir(dir) ==
    IF dir.readable THEN [ok |-> TRUE, entries |-> dir.entries]
    ELSE [ok |-> FALSE, entries |-> << >>]

\* fs.readFile(join(directory, fileName), 'utf8'): the content, or a rejection
\* when the file is gone, is no file or cannot be read.
readFile(dir, fileName) ==
    LET found == { i \in 1..Len(dir.entries) : dir.entries[i].name = fileName }
    IN  IF dir.readable /\ found # {}
           /\ \A i \in found : dir.entries[i].isFile /\ dir.entries[i].readable
        THEN [ok |-> TRUE, content |-> dir.entries[CHOOSE i \in found : TRUE].content]
        ELSE [ok |-> FALSE, content |-> << >>]

\* entries.filter(...) and the names of what it keeps.
Names(entries) == [i \in 1..Len(entries) |-> entries[i].name]

\* The UTF-16 order of the characters of the modelled file names.
CodeUnitOrder == << ".", "a", "b", "d", "g", "h", "m", "n", "p", "t", "x", "y" >>
CodeUnit(c) == CHOOSE i \in 1..Len(CodeUnitOrder) : CodeUnitOrder[i] = c

\* a sorts before b by Array.prototype.sort without a comparator.
RECURSIVE SortsBefore(_, _)
SortsBefore(a, b) ==
    IF a = << >> THEN b # << >>
    ELSE IF b = << >> THEN FALSE
    ELSE IF Head(a) # Head(b) THEN CodeUnit(Head(a)) < CodeUnit(Head(b))
    ELSE SortsBefore(Tail(a), Tail(b))

RECURSIVE InsertSorted(_, _)
InsertSorted(sorted, name) ==
    IF sorted = << >> THEN << name >>
    ELSE IF SortsBefore(name, Head(sorted)) THEN << name >> \o sorted
    ELSE << Head(sorted) >> \o InsertSorted(Tail(sorted), name)

\* Array.prototype.sort
RECURSIVE Sort(_)
Sort(names) ==
    IF names = << >> THEN << >>
    ELSE InsertSorted(Sort(SubSeq(names, 1, Len(names) - 1)), names[Len(names)])

\* fileName.replace(/\.py$/i, '') and fileName.replace(/\.md$/i, '')
WithoutExtension(fileName, extension) ==
    IF Len(fileName) >= Len(extension)
       /\ toLowerCase(SubSeq(fileName, Len(fileName) - Len(extension) + 1, Len(fileName)))
              = extension
    THEN SubSeq(fileName, 1, Len(fileName) - Len(extension))
    ELSE fileName

HasExtension(fileName, extension) ==
    /\ Len(fileName) >= Len(extension)
    /\ SubSeq(fileName, Len(fileName) - Len(extension) + 1, Len(fileName)) = extension

\* The GlideTemplate of a file. The modelled files hold no docstring:
\* docstringMatch is null, metadata is {} and the title is the id.
GlideTemplate(fileName, content) ==
    [id |-> WithoutExtension(fileName, PyExtension),
     title |-> WithoutExtension(fileName, PyExtension),
     codeSnippet |-> content,
     fileName |-> fileName,
     relativePath |-> << "templates/gliders/" >> \o fileName]

\* The BreakdownReference of a file.
BreakdownReference(fileName, content) ==
    LET headingMatch == Exec(TitleHeadingPattern, content, 1)
    IN  [id |-> WithoutExtension(fileName, MdExtension),
         title |-> IF headingMatch.found THEN Trim(GroupText(content, headingMatch, 1))
                   ELSE WithoutExtension(fileName, MdExtension),
         content |-> content]

\* A loader from its call to its return: where it stands, what readdir gave,
\* the files it reads, how each readFile settled, and what it returned.
IdleLoad ==
    [at |-> "idle", listed |-> "pending", files |-> << >>, reads |-> << >>, result |-> << >>]

Started(load) == [load EXCEPT !.at = "listing"]

\* return value of a loader
Returns(load, entries) == [load EXCEPT !.at = "returned", !.result = entries]

\* The loader's continuation behind 'await fs.readdir(...)': the catch block
\* when readdir rejected, else the readFile calls of the selected files.
AfterReaddir(load, listing, selected) ==
    IF ~listing.ok THEN Returns([load EXCEPT !.listed = "failed"], << >>)
    ELSE IF selected = << >> THEN Returns([load EXCEPT !.listed = "ok"], << >>)
    ELSE [load EXCEPT !.at = "reading", !.listed = "ok", !.files = selected]

AllOk(reads) == \A i \in 1..Len(reads) : reads[i].ok

\* Faulty variant: the files that could be read are returned.
AfterReadsKeepingReadable(load, reads, mapped) ==
    LET kept == SelectSeq([i \in 1..Len(reads) |-> [ok |-> reads[i].ok, entry |-> mapped[i]]],
                          LAMBDA x : x.ok)
    IN  Returns([load EXCEPT !.reads = [i \in 1..Len(reads) |-> reads[i].ok]],
                [i \in 1..Len(kept) |-> kept[i].entry])

\* The loader's continuation behind 'await Promise.all(...)': the mapped
\* entries when every readFile resolved, the catch block when one rejected.
AfterReads(load, reads, mapped) ==
    Returns([load EXCEPT !.reads = [i \in 1..Len(reads) |-> reads[i].ok]],
            IF AllOk(reads) THEN mapped ELSE << >>)

IsPython(entry) == HasExtension(entry.name, PyExtension)
IsMarkdownFile(entry) == entry.isFile /\ HasExtension(entry.name, MdExtension)

\* Faulty variant: a rejected readdir is thrown on to the caller.
GliderListingUncaught(load, dir) ==
    LET listing == readdir(dir)
    IN  IF ~listing.ok THEN [load EXCEPT !.at = "thrown", !.listed = "failed"]
        ELSE AfterReaddir(load, listing, Names(SelectSeq(listing.entries, IsPython)))

\* loadGliderTemplates up to its Promise.all.
GliderListing(load, dir) ==
    LET listing == readdir(dir)
    IN  AfterReaddir(load, listing, Names(SelectSeq(listing.entries, IsPython)))

\* loadBreakdownReferences up to its Promise.all.
BreakdownListing(load, dir) ==
    LET listing == readdir(dir)
    IN  AfterReaddir(load, listing, Sort(Names(SelectSeq(listing.entries, IsMarkdownFile))))

\* pythonFiles.map(async ...) and markdownFiles.map(async ...): one readFile
\* for each selected file.
ReadAll(load, dir) == [i \in 1..Len(load.files) |-> readFile(dir, load.files[i])]

GliderTemplates(load, reads) ==
    [i \in 1..Len(reads) |-> GlideTemplate(load.files[i], reads[i].content)]

BreakdownReferences(load, reads) ==
    [i \in 1..Len(reads) |-> BreakdownReference(load.files[i], reads[i].content)]

-----------------------------------------------------------------------------
(* The route POST /api/generate.                                           *)

\* Most requests in progress at the same time.
MaxRequests == 2

FileName == << "vulnerability-breakdown.md" >>

\* What request.json() settles with: a rejection for a body that is no JSON,
\* else the object with its markdown field, which may be missing.
MalformedBody == [json |-> FALSE, markdown |-> Undefined]
JsonBody(markdown) == [json |-> TRUE, markdown |-> markdown]

\* Reports sent to the route: white space; a heading and a sentence; a fenced
\* block under a heading.
RouteReportList ==
    << << "#", " ", "V", "\n", "a", "." >>,
       << "#", " ", "W", "\n" >> \o FenceClose \o << "\n", "x", "\n" >> \o FenceClose,
       << " " >> >>

RouteReports == { RouteReportList[i] : i \in 1..Len(RouteReportList) }

Payloads ==
    { MalformedBody, JsonBody(Undefined), JsonBody(Defined(<< >>)) }
        \cup { JsonBody(Defined(text)) : text \in RouteReports }

\* The locals of a request that has reached the route, with the history of
\* what it invoked.
NewRequest(payload) ==
    [payload |-> payload,
     pc |-> "received",
     parsedReport |-> Undefined,
     templates |-> IdleLoad,
     references |-> IdleLoad,
     settled |-> << >>,
     context |-> Undefined,
     calls |-> << >>,
     attempts |-> << >>,
     failure |-> NoError,
     document |-> Undefined,
     response |-> Undefined,
     invoked |-> << >>]

Response(status, payload) == Defined([status |-> status, body |-> payload])

\* Lines 11-16: the answer to a request without markdown.
MissingMarkdown ==
    Response(400, [error |-> << "Missing markdown payload" >>])

\* Lines 34-48: the answer of the catch block.
Failed(error) ==
    Response(500, [error |-> IF error.isError THEN error.message
                             ELSE << "Generation failed. Please try again." >>,
                   details |-> << "Check server logs for more information. Ensure Echo is properly configured." >>])

\* Lines 30-33: the answer with the document.
Generated(doc) == Response(200, [document |-> doc, fileName |-> FileName])

\* if (!markdown): undefined and '' are falsy.
Falsy(markdown) == markdown = Undefined \/ markdown = Defined(<< >>)

\* Faulty variant: only a missing field counts, the empty string is parsed.
ReceivedAcceptingEmpty(req) ==
    IF ~req.payload.json
    THEN [req EXCEPT !.pc = "responded",
                     !.response = Failed(Throw("SyntaxError", << "Unexpected end of JSON input" >>).error)]
    ELSE IF req.payload.markdown = Undefined
    THEN [req EXCEPT !.pc = "responded", !.response = MissingMarkdown]
    ELSE [req EXCEPT !.pc = "parsed",
                     !.parsedReport = Defined(parseVulnerabilityReport(req.payload.markdown[1], Undefined)),
                     !.invoked = Append(@, "parseVulnerabilityReport")]

\* Lines 9-18: the body is read, checked and parsed.
Received(req) ==
    IF ~req.payload.json
    THEN [req EXCEPT !.pc = "responded",
                     !.response = Failed(Throw("SyntaxError", << "Unexpected end of JSON input" >>).error)]
    ELSE IF Falsy(req.payload.markdown)
    THEN [req EXCEPT !.pc = "responded", !.response = MissingMarkdown]
    ELSE [req EXCEPT !.pc = "parsed",
                     !.parsedReport = Defined(parseVulnerabilityReport(req.payload.markdown[1], Undefined)),
                     !.invoked = Append(@, "parseVulnerabilityReport")]

\* Faulty variant: the join does not wait for the second loader.
LoadsSettledAny(req) ==
    req.templates.at \in {"returned", "thrown"} \/ req.references.at \in {"returned", "thrown"}

\* Promise.all settles: both loaders have returned, or one has thrown.
LoadsSettled(req) ==
    \/ req.templates.at = "returned" /\ req.references.at = "returned"
    \/ req.templates.at = "thrown"
    \/ req.references.at = "thrown"

\* Faulty variant: the report of the first request that was parsed is kept at
\* module level and handed to every later generation.
ContextOfFirstReport(req) ==
    LET parsed == { q \in DOMAIN requests : requests[q].parsedReport # Undefined }
        first == CHOOSE q \in parsed : \A p \in parsed : q <= p
    IN  [report |-> requests[first].parsedReport[1],
         referenceBreakdowns |-> req.references.result,
         templates |-> req.templates.result]

\* Lines 24-28: the context handed to generateBreakdownDocument.
ContextOf(req) ==
    [report |-> req.parsedReport[1],
     referenceBreakdowns |-> req.references.result,
     templates |-> req.templates.result]

\* Faulty variant: an error of the backend call is thrown on to the route.
GenerationStepRethrowing(req, tier, resp, outcome) ==
    LET tried == [req EXCEPT !.attempts = Append(@, [tier |-> tier, response |-> resp,
                                                      outcome |-> outcome])]
    IN  IF outcome.ok
        THEN [tried EXCEPT !.pc = "generated",
                           !.document = Defined(TierResult(tier, outcome.text).document)]
        ELSE [tried EXCEPT !.pc = "thrown", !.failure = outcome.error]

\* generateBreakdownDocument from the settling of a backend call to its next
\* await or to its return.
GenerationStep(req, tier, resp, outcome) ==
    LET tried == [req EXCEPT !.attempts = Append(@, [tier |-> tier, response |-> resp,
                                                      outcome |-> outcome])]
    IN  IF outcome.ok
        THEN [tried EXCEPT !.pc = "generated",
                           !.document = Defined(TierResult(tier, outcome.text).document)]
        ELSE IF tier = "primary" /\ FallbackEligible
        THEN [tried EXCEPT !.pc = "fallback",
                           !.failure = outcome.error,
                           !.calls = Append(@, CallOf("fallback", FALLBACK_MODEL_ID)),
                           !.invoked = Append(@, "tryGenerateMarkdown")]
        ELSE [tried EXCEPT !.pc = "generated",
                           !.failure = outcome.error,
                           !.document = Defined(StaticResult(req.context[1], outcome.error).document)]

Update(r, req) ==
    /\ requests' = [requests EXCEPT ![r] = req]
    /\ UNCHANGED << store >>
    /\ UNCHANGED << requestVars, digestVars, parserVars, sanitizerVars, assemblerVars >>

\* request.json() has settled: lines 9-18.
Receive(r) ==
    /\ requests[r].pc = "received"
    /\ \E req \in { Received(requests[r]) } : Update(r, req)

\* Lines 19-22: both loaders are called; each runs up to its readdir.
StartLoads(r) ==
    /\ requests[r].pc = "parsed"
    /\ Update(r, [requests[r] EXCEPT !.pc = "loading",
                                     !.templates = Started(@),
                                     !.references = Started(@),
                                     !.invoked = @ \o << "loadGliderTemplates",
                                                         "loadBreakdownReferences" >>])

\* The order in which the promises handed to Promise.all settle, up to the
\* moment Promise.all settles itself.
Settle(req, loader, load) ==
    IF load.at \in {"returned", "thrown"} THEN [req EXCEPT !.settled = Append(@, loader)]
    ELSE req

\* readdir of the gliders directory has settled.
GlidersListed(r) ==
    /\ requests[r].templates.at = "listing"
    /\ \E load \in { GliderListing(requests[r].templates, store.gliders) } :
          Update(r, Settle([requests[r] EXCEPT !.templates = load], "templates", load))

\* The readFile calls of the templates have settled.
GlidersRead(r) ==
    /\ requests[r].templates.at = "reading"
    /\ \E reads \in { ReadAll(requests[r].templates, store.gliders) } :
          \E load \in { AfterReads(requests[r].templates, reads,
                                   GliderTemplates(requests[r].templates, reads)) } :
             Update(r, Settle([requests[r] EXCEPT !.templates = load], "templates", load))

\* readdir of the breakdowns directory has settled.
BreakdownsListed(r) ==
    /\ requests[r].references.at = "listing"
    /\ \E load \in { BreakdownListing(requests[r].references, store.breakdowns) } :
          Update(r, Settle([requests[r] EXCEPT !.references = load], "references", load))

\* The readFile calls of the references have settled.
BreakdownsRead(r) ==
    /\ requests[r].references.at = "reading"
    /\ \E reads \in { ReadAll(requests[r].references, store.breakdowns) } :
          \E load \in { AfterReads(requests[r].references, reads,
                                   BreakdownReferences(requests[r].references, reads)) } :
             Update(r, Settle([requests[r] EXCEPT !.references = load], "references", load))

\* Promise.all has settled: lines 24-28 and generateBreakdownDocument up to the
\* await of its primary call, or the catch block when a loader has thrown.
LoadsJoined(r) ==
    /\ requests[r].pc = "loading"
    /\ LoadsSettled(requests[r])
    /\ IF "thrown" \in { requests[r].templates.at, requests[r].references.at }
       THEN Update(r, [requests[r] EXCEPT
                          !.pc = "responded",
                          !.response = Failed(Throw("Error", << "EACCES" >>).error)])
       ELSE \E ctx \in { ContextOf(requests[r]) } :
               Update(r, [requests[r] EXCEPT
                             !.pc = "primary",
                             !.settled = << >>,
                             !.context = Defined(ctx),
                             !.calls = Append(@, CallOf("primary", modelId)),
                             !.invoked = @ \o << "generateBreakdownDocument",
                                                 "tryGenerateMarkdown" >>])

\* A backend call of the request has settled.
BackendSettles(r, tier) ==
    /\ requests[r].pc = tier
    /\ \E resp \in Responses :
          \E outcome \in { tryGenerateMarkdown(resp) } :
             \E req \in { GenerationStep(requests[r], tier, resp, outcome) } :
                Update(r, req)

PrimarySettles(r) == BackendSettles(r, "primary")

FallbackSettles(r) == BackendSettles(r, "fallback")

\* generateBreakdownDocument has settled: lines 30-33, or the catch block.
Respond(r) ==
    /\ requests[r].pc \in {"generated", "thrown"}
    /\ Update(r, [requests[r] EXCEPT
                     !.pc = "responded",
                     !.response = IF requests[r].pc = "generated"
                                  THEN Generated(requests[r].document[1])
                                  ELSE Failed(requests[r].failure)])

\* The process environment, read once when the module is loaded; the route
\* passes no options, so the model is the default one.
InitEnvironment ==
    /\ nodeEnv \in NodeEnvs
    /\ llmFlag \in LlmFlags
    /\ modelId = DEFAULT_MODEL_ID
    /\ context = [report |-> LongReport, referenceBreakdowns |-> << >>, templates |-> << >>]
    /\ pc = "start"
    /\ inFlight = {}
    /\ calls = << >>
    /\ attempts = << >>
    /\ failure = NoError
    /\ staticBuilt = FALSE
    /\ result = Pending

\* One request has reached the route. The program only reads the content
\* store: a run keeps the store it starts with.
InitRoute ==
    /\ store \in Stores
    /\ requests \in [1..1 -> { NewRequest(payload) : payload \in Payloads }]
    /\ InitEnvironment
    /\ InitDigest
    /\ InitParserIdle
    /\ InitSanitizerIdle
    /\ InitAssemblerIdle

\* Requests reach the route together, each with a report of its own; the
\* hosted backend is in use and the content store is complete.
InitConcurrent ==
    /\ store = [gliders |-> CompleteGliders, breakdowns |-> CompleteBreakdowns]
    /\ requests = [r \in 1..MaxRequests |->
                      NewRequest(JsonBody(Defined(
                          RouteReportList[((r - 1) % Len(RouteReportList)) + 1])))]
    /\ nodeEnv = "production"
    /\ llmFlag = "unset"
    /\ modelId = DEFAULT_MODEL_ID
    /\ context = [report |-> LongReport, referenceBreakdowns |-> << >>, templates |-> << >>]
    /\ pc = "start"
    /\ inFlight = {}
    /\ calls = << >>
    /\ attempts = << >>
    /\ failure = NoError
    /\ staticBuilt = FALSE
    /\ result = Pending
    /\ InitDigest
    /\ InitParserIdle
    /\ InitSanitizerIdle
    /\ InitAssemblerIdle

NextRoute ==
    \E r \in DOMAIN requests :
          \/ Receive(r)
          \/ StartLoads(r)
          \/ GlidersListed(r)
          \/ GlidersRead(r)
          \/ BreakdownsListed(r)
          \/ BreakdownsRead(r)
          \/ LoadsJoined(r)
          \/ PrimarySettles(r)
          \/ FallbackSettles(r)
          \/ Respond(r)

SpecRoute == InitRoute /\ [][NextRoute]_vars

\* The same route with several requests in progress.
NextConcurrent == NextRoute

SpecConcurrent == InitConcurrent /\ [][NextConcurrent]_vars

-----------------------------------------------------------------------------
(* Properties of generateBreakdownDocument.                                *)

EndsWith(s, suffix) ==
    /\ Len(suffix) <= Len(s)
    /\ SubSeq(s, Len(s) - Len(suffix) + 1, Len(s)) = suffix

\* The texts of lits occur in s one after the other, from position from on.
RECURSIVE OccurInOrder(_, _, _)
OccurInOrder(s, lits, from) ==
    \/ Len(lits) = 0
    \/ /\ IndexFrom(s, Head(lits), from) > 0
       /\ OccurInOrder(s, Tail(lits), IndexFrom(s, Head(lits), from) + Len(Head(lits)))

\* The lines of s.
RECURSIVE Lines(_)
Lines(s) ==
    IF IndexFrom(s, NewLine, 1) = 0 THEN << s >>
    ELSE << SubSeq(s, 1, IndexFrom(s, NewLine, 1) - 1) >>
         \o Lines(From(s, IndexFrom(s, NewLine, 1) + 1))

IsHeadingLine(line) == Len(line) > 0 /\ line[1] = "#"

\* The fenced skeleton block that closes an assembled document.
SkeletonBlock == FenceOpen \o BlankLine \o buildGliderSkeleton \o BlankLine \o FenceClose

\* The skeleton section that assembleDocument appends.
SkeletonSection ==
    SkeletonHeading \o BlankLine
    \o << "Use this scaffold as a starting point while following official Glider examples." >>
    \o BlankLine \o SkeletonBlock

\* The part of a returned document that precedes its skeleton section.
BodyOf(doc) == SubSeq(doc, 1, Len(doc) - Len(SkeletonSection \o NewLine))

Attempted(tier) == \E i \in 1..Len(calls) : calls[i].tier = tier
PrimaryFailed == Len(attempts) >= 1 /\ attempts[1].tier = "primary" /\ ~attempts[1].outcome.ok
PrimarySucceeded == Len(attempts) >= 1 /\ attempts[1].tier = "primary" /\ attempts[1].outcome.ok
FallbackFailed == Len(attempts) = 2 /\ attempts[2].tier = "fallback" /\ ~attempts[2].outcome.ok
FallbackSucceeded == Len(attempts) = 2 /\ attempts[2].tier = "fallback" /\ attempts[2].outcome.ok

\* The document assembled from the sanitised text of a backend response.
DocumentFrom(resp) ==
    Returned(assembleDocument(sanitizeModelResponse(resp.text), buildGliderSkeleton))

\* A backend response whose text is empty, or empty once sanitised.
EmptyOutput(resp) == resp.kind = "text" /\ sanitizeModelResponse(resp.text) = << >>

\* C1: generateBreakdownDocument never throws: whatever the outcomes of the
\* primary and the fallback call, the request ends by returning a non-empty
\* document, and until it has returned it is waiting for exactly one backend
\* call or about to issue one.
C1_NeverThrows ==
    /\ result.status \in {"pending", "returned"}
    /\ pc = "done" <=> result.status = "returned"
    /\ result.status = "returned" => result.document # << >>
    /\ pc = "primary" => "primary" \in inFlight
    /\ pc = "fallback" => "fallback" \in inFlight

\* Both backend calls threw or returned nothing usable, and a document came back.
C1_Witness ==
    /\ pc = "done"
    /\ Len(attempts) = 2
    /\ attempts[1].response.kind = "network"
    /\ EmptyOutput(attempts[2].response)
    /\ result.status = "returned"

\* C2: the two backend tiers are strictly sequential: at most one backend
\* call is in flight, and the fallback call is issued second, after the
\* primary call has completed with a failure.
C2_Sequential ==
    /\ Cardinality(inFlight) <= 1
    /\ \A i \in 1..Len(calls) :
          calls[i].tier = "fallback" =>
             /\ i = 2
             /\ calls[1].tier = "primary"
             /\ PrimaryFailed
             /\ "primary" \notin inFlight

\* The fallback call is in flight.
C2_Witness == inFlight = {"fallback"} /\ Len(calls) = 2

\* C3: the fallback call is attempted if and only if the primary call failed,
\* the local override is not active and the primary model is not gpt-5-nano;
\* with the override active or the identifiers equal, a primary failure ends
\* in the static fallback after exactly one backend call.
C3_FallbackAttempted ==
    /\ Attempted("fallback") <=>
          (PrimaryFailed /\ ~LOCAL_LLM_ENABLED /\ modelId # "gpt-5-nano")
    /\ (PrimaryFailed /\ (LOCAL_LLM_ENABLED \/ modelId = "gpt-5-nano")) =>
          /\ pc = "done"
          /\ result.tier = "static"
          /\ Len(calls) = 1

\* The primary model is the fallback model, it failed, and the static document came.
C3_Witness ==
    /\ ~LOCAL_LLM_ENABLED
    /\ modelId = "gpt-5-nano"
    /\ PrimaryFailed
    /\ result.tier = "static"
    /\ Len(calls) = 1

\* C4: first success wins: after a primary success the document is the one
\* assembled from the primary's sanitised output, with no fallback call and no
\* static fallback; after a primary failure and a fallback success it is the one
\* assembled from the fallback's sanitised output, with no static fallback.
C4_FirstSuccessWins ==
    /\ PrimarySucceeded =>
          /\ pc = "done"
          /\ result.tier = "primary"
          /\ result.document = DocumentFrom(attempts[1].response)
          /\ Len(calls) = 1
          /\ ~staticBuilt
    /\ (PrimaryFailed /\ FallbackSucceeded) =>
          /\ pc = "done"
          /\ result.tier = "fallback"
          /\ result.document = DocumentFrom(attempts[2].response)
          /\ ~staticBuilt

\* The primary call failed and the fallback call produced the document.
C4_Witness == PrimaryFailed /\ FallbackSucceeded /\ result.tier = "fallback"

\* C5: when the primary call failed and the fallback call failed or was
\* skipped, the returned document holds the four headings in order and ends
\* with the fenced skeleton block (and the closing newline).
C5_StaticDocument ==
    (pc = "done" /\ PrimaryFailed /\ (FallbackFailed \/ ~Attempted("fallback"))) =>
       /\ OccurInOrder(result.document,
                       << TitleHeading(context.report.metadata.title),
                          VulnerabilityHeading, EvidenceHeading, BlueprintHeading >>, 1)
       /\ EndsWith(result.document, SkeletonBlock \o NewLine)

\* The static document of a report of white space, without artifacts or references.
C5_Witness ==
    /\ pc = "done"
    /\ result.tier = "static"
    /\ Trim(context.report.raw) = << >>
    /\ context.report.artifacts = << >>
    /\ context.referenceBreakdowns = << >>

\* C6: every returned document has exactly four sections before the skeleton
\* section: a title heading that ends in Breakdown, then Vulnerability
\* Breakdown, Evidence & Code Snippets and Glider Detection Blueprint.
C6_FourSections ==
    pc = "done" =>
       /\ EndsWith(result.document, BlankLine \o SkeletonSection \o NewLine)
       /\ LET headings == SelectSeq(Lines(BodyOf(result.document)), IsHeadingLine)
          IN  /\ Len(headings) = 4
              /\ OccursAt(headings[1], 1, << "#", " " >>)
              /\ EndsWith(headings[1], << " ", "Breakdown" >>)
              /\ headings[2] = VulnerabilityHeading
              /\ headings[3] = EvidenceHeading
              /\ headings[4] = BlueprintHeading

\* C7: a backend call whose text is empty, or empty once sanitised, fails its
\* tier: the document is not built from it and the next tier is tried, on the
\* hosted and on the local backend.
C7_EmptyOutputFails ==
    \A i \in 1..Len(attempts) :
       EmptyOutput(attempts[i].response) =>
          /\ ~attempts[i].outcome.ok
          /\ result.tier # attempts[i].tier
          /\ IF attempts[i].tier = "primary" /\ FallbackEligible
             THEN Len(calls) = 2 /\ calls[2].tier = "fallback"
             ELSE pc = "done" /\ result.tier = "static"

\* The local backend answered with a think block only; the static document came.
C7_Witness ==
    /\ LOCAL_LLM_ENABLED
    /\ Len(attempts) = 1
    /\ attempts[1].response = [kind |-> "text", text |-> ThinkOpen \o << "x" >> \o ThinkClose]
    /\ result.tier = "static"

\* The tier that follows a failed call of the given tier.
FollowingTier(tier) ==
    IF tier = "primary" /\ FallbackEligible THEN "fallback" ELSE "static"

\* C8: the tier that follows a failed backend call depends on the tier and on
\* the fallback rule alone, not on the kind of failure, and no failure reaches
\* the caller.
C8_FailureKindIrrelevant ==
    /\ result.status # "thrown"
    /\ \A i \in 1..Len(attempts) :
          ~attempts[i].outcome.ok =>
             IF FollowingTier(attempts[i].tier) = "fallback"
             THEN Len(calls) = 2 /\ calls[2].tier = "fallback"
             ELSE pc = "done" /\ result.status = "returned" /\ result.tier = "static"

\* A transport timeout of the primary call was followed by the fallback call,
\* whose malformed body was followed by the static document.
C8_Witness ==
    /\ Len(attempts) = 2
    /\ attempts[1].response.kind = "timeout"
    /\ attempts[2].response.kind = "malformed"
    /\ result.tier = "static"

-----------------------------------------------------------------------------
(* Properties of buildReferenceDigest.                                     *)

\* C9: the characters of clipped reference text that the digest includes,
\* truncation markers included, never exceed MAX_TOTAL_REFERENCE_LENGTH.
C9_CumulativeCap == digest.built => digest.consumed <= MAX_TOTAL_REFERENCE_LENGTH

-----------------------------------------------------------------------------
(* Properties of parseVulnerabilityReport.                                 *)

Parsed == parsedReport # Undefined

BlocksOfKind(blocks, kinds) == SelectSeq(blocks, LAMBDA b : b.kind \in kinds)

HasKind(blocks, kinds) == \E k \in 1..Len(blocks) : blocks[k].kind \in kinds

\* The artifact the i-th fenced block of a report stands for.
ArtifactOf(block, i) ==
    [label |-> << "Code Snippet", " " >> \o Decimal(i)
                  \o (IF block.language = << >> THEN << >>
                      ELSE << " ", "(" >> \o block.language \o << ")" >>),
     content |-> Trim(block.content)]

ArtifactsOf(blocks) ==
    LET fences == BlocksOfKind(blocks, { "fence" })
    IN  [i \in 1..Len(fences) |-> ArtifactOf(fences[i], i)]

\* C11: a report whose fences are all closed and that holds N fenced code
\* blocks, tagged with a language or not, yields exactly N artifacts, the i-th
\* labelled 'Code Snippet i' (and ' (language)' for a tagged block) with the
\* trimmed content of the i-th block; a report with no fenced block yields none.
C11_ArtifactPerFencedBlock ==
    (Parsed /\ ~HasKind(reportBlocks, { "opener" }))
        => parsedReport[1].artifacts = ArtifactsOf(reportBlocks)

\* The types the terms are cues of.
Cues(terms) == { terms[k].cue : k \in 1..Len(terms) } \ { "none" }

\* Of the types of a non-empty set, the one listed first in vulnTypePatterns.
EarliestType(types) ==
    vulnTypePatterns[MinOf({ k \in 1..Len(vulnTypePatterns) :
                                vulnTypePatterns[k].type \in types })].type

\* The term lists the parsed title can have been written from: those of a
\* heading or Summary block with that text, none for the sentinel.
TitleTerms ==
    { reportBlocks[k].terms : k \in { j \in 1..Len(reportBlocks) :
          /\ reportBlocks[j].kind \in { "heading", "summary" }
          /\ TermsText(reportBlocks[j].terms) = parsedReport[1].metadata.title } }
        \cup (IF parsedReport[1].metadata.title = UnknownTitle THEN { << >> } ELSE {})

\* C12: when the title holds cues of several types, vulnType is the one of them
\* that vulnTypePatterns lists first, wherever the cues stand in the title; a
\* title with a validation cue and an access-control cue gives access-control.
C12_EarliestPatternWins ==
    Parsed =>
        \A terms \in TitleTerms :
            Cardinality(Cues(terms)) >= 2
                => parsedReport[1].metadata.vulnType = EarliestType(Cues(terms))

\* The title names validation before admin, and the type is access-control.
C12_Witness ==
    /\ Parsed
    /\ << Validation, Admin >> \in TitleTerms
    /\ parsedReport[1].metadata.vulnType = "access-control"

AllTypes == { vulnTypePatterns[k].type : k \in 1..Len(vulnTypePatterns) }

\* Where the k-th block of the report starts (0-based) and where it ends.
BlockStart(k) == Len(RenderAll(SubSeq(reportBlocks, 1, k - 1)))
BlockEnd(k) == BlockStart(k) + Len(Render(reportBlocks[k]))

\* The types the report holds a cue of in its first BodyScanLength characters.
CuesInHead ==
    UNION { Cues(reportBlocks[k].terms) :
              k \in { j \in 1..Len(reportBlocks) : BlockEnd(j) <= BodyScanLength } }

\* No block with a cue lies across character BodyScanLength.
NoCueAcrossLimit ==
    \A k \in 1..Len(reportBlocks) :
        (BlockStart(k) < BodyScanLength /\ BodyScanLength < BlockEnd(k))
            => Cues(reportBlocks[k].terms) = {}

NoPatternMatches(text) ==
    \A k \in 1..Len(vulnTypePatterns) : ~TestI(vulnTypePatterns[k].pattern, text)

\* C13: vulnType is always one of the types of vulnTypePatterns or 'unknown',
\* and it is 'unknown' exactly when no pattern matches the title and none
\* matches the first 500 characters of the report -- for a report written from
\* known terms, exactly when neither its title nor its first 500 characters
\* hold a cue.
C13_TypeAlwaysSet ==
    Parsed =>
        /\ parsedReport[1].metadata.vulnType \in AllTypes \cup { "unknown" }
        /\ parsedReport[1].metadata.vulnType = "unknown"
              <=> /\ NoPatternMatches(parsedReport[1].metadata.title)
                  /\ NoPatternMatches(Slice0(body, BodyScanLength))
        /\ \A terms \in TitleTerms :
              NoCueAcrossLimit =>
                  (parsedReport[1].metadata.vulnType = "unknown"
                      <=> (Cues(terms) = {} /\ CuesInHead = {}))

\* A report without a title whose only cue stands after character 500.
C13_Witness ==
    /\ Parsed
    /\ parsedReport[1].metadata.vulnType = "unknown"
    /\ parsedReport[1].metadata.title = UnknownTitle
    /\ \E k \in 1..Len(reportBlocks) :
          Cues(reportBlocks[k].terms) # {} /\ BlockStart(k) >= BodyScanLength

\* C14: a title that holds a cue decides the type alone, also when the first
\* 500 characters hold the cue of a type listed earlier; a title without a cue
\* leaves the decision to the cues of the first 500 characters, the earliest
\* listed one winning, and a cue that stands after them decides nothing.
C14_TitleBeforeBody ==
    Parsed =>
        \A terms \in TitleTerms :
            /\ Cues(terms) # {}
                  => parsedReport[1].metadata.vulnType = EarliestType(Cues(terms))
            /\ (Cues(terms) = {} /\ NoCueAcrossLimit)
                  => parsedReport[1].metadata.vulnType =
                        IF CuesInHead = {} THEN "unknown" ELSE EarliestType(CuesInHead)

\* The title's cue wins over the cue of an earlier listed type in the body.
C14_Witness ==
    /\ Parsed
    /\ \E terms \in TitleTerms :
          /\ Cues(terms) # {}
          /\ CuesInHead \ Cues(terms) # {}
          /\ EarliestType(CuesInHead) # EarliestType(Cues(terms))
          /\ parsedReport[1].metadata.vulnType = EarliestType(Cues(terms))

\* The title the report's author gave it: the text of the first top-level
\* heading, else the line under the first Summary heading, else none.
TitleWritten ==
    IF HasKind(reportBlocks, { "heading" })
    THEN TermsText(BlocksOfKind(reportBlocks, { "heading" })[1].terms)
    ELSE IF HasKind(reportBlocks, { "summary" })
    THEN TermsText(BlocksOfKind(reportBlocks, { "summary" })[1].terms)
    ELSE UnknownTitle

\* C15: the title is the text of the first top-level heading line if the
\* report has one, also when a Summary section stands before it; else the
\* first line under the Summary heading; else 'Unknown Vulnerability'.
C15_TitlePriority ==
    Parsed => parsedReport[1].metadata.title = TitleWritten

RiskLevels ==
    { << "c", "r", "i", "t", "i", "c", "a", "l" >>, << "h", "i", "g", "h" >>,
      << "m", "e", "d", "i", "u", "m" >>, << "l", "o", "w" >> }

\* C16: the severity is absent or one of 'critical', 'high', 'medium', 'low'
\* in lower case, also when it is the word under a '## Severity' or
\* '## Impact' header.
C16_SeverityIsRiskLevel ==
    Parsed =>
        \/ parsedReport[1].metadata.severity = Undefined
        \/ \E level \in RiskLevels : parsedReport[1].metadata.severity = Defined(level)

\* The level of the first block of the given kinds and orders, if there is one.
FirstPhraseLevel(orders) ==
    LET phrases == SelectSeq(reportBlocks,
                             LAMBDA b : b.kind = "phrase" /\ b.order \in orders)
    IN  IF phrases = << >> THEN Undefined ELSE Defined(toLowerCase(phrases[1].level))

\* The word under the first '## Severity' or '## Impact' header, lower-cased.
SectionWord ==
    LET sections == BlocksOfKind(reportBlocks, { "severity" })
    IN  IF sections = << >> THEN Undefined ELSE Defined(toLowerCase(sections[1].word))

\* C17 as stated: the word under the explicit header if there is one, lower-
\* cased; otherwise the level of the first inline phrase of the report, be it
\* '<level> severity|impact|risk' or 'severity|impact|risk: <level>';
\* otherwise absent.
C17_FirstInlinePhrase ==
    Parsed =>
        parsedReport[1].metadata.severity =
            IF SectionWord # Undefined THEN SectionWord
            ELSE FirstPhraseLevel({ "level first", "keyword first" })

\* C17, amended: the word under the explicit header if there is one, lower-
\* cased, whatever inline phrases the report holds; otherwise the level of the
\* first phrase '<level> severity|impact|risk' if the report holds such a
\* phrase anywhere, and only if it holds none the level of the first phrase
\* 'severity|impact|risk: <level>'; otherwise absent.
C17_LevelFirstPhrasePreferred ==
    Parsed =>
        parsedReport[1].metadata.severity =
            IF SectionWord # Undefined THEN SectionWord
            ELSE IF FirstPhraseLevel({ "level first" }) # Undefined
            THEN FirstPhraseLevel({ "level first" })
            ELSE FirstPhraseLevel({ "keyword first" })

\* An explicit section and an inline phrase of another level: the section wins.
C17_Witness ==
    /\ Parsed
    /\ SectionWord # Undefined
    /\ FirstPhraseLevel({ "level first", "keyword first" }) \notin { Undefined, SectionWord }
    /\ parsedReport[1].metadata.severity = SectionWord

\* C18: whatever the report -- empty, without headings, with a fence that
\* nothing closes -- parseVulnerabilityReport returns a report whose raw is the
\* input unchanged, with a title, a type and a list of artifacts; what the
\* report lacks comes out as the default: the sentinel title, no severity,
\* 'unknown', no artifact.
C18_AlwaysAReport ==
    Parsed =>
        /\ parsedReport[1].raw = body
        /\ parsedReport[1].raw = RenderAll(reportBlocks)
        /\ parsedReport[1].metadata.vulnType \in AllTypes \cup { "unknown" }
        /\ Len(parsedReport[1].artifacts) >= 0
        /\ ~HasKind(reportBlocks, { "heading", "summary", "hash" })
              => parsedReport[1].metadata.title = UnknownTitle
        /\ ~HasKind(reportBlocks, { "severity", "phrase" })
              => parsedReport[1].metadata.severity = Undefined
        /\ (\A k \in 1..Len(reportBlocks) : Cues(reportBlocks[k].terms) = {})
              => parsedReport[1].metadata.vulnType = "unknown"
        /\ (~HasKind(reportBlocks, { "fence" }) /\ Len(BlocksOfKind(reportBlocks, { "opener" })) <= 1)
              => parsedReport[1].artifacts = << >>

\* A report without a heading whose only fence is never closed.
C18_Witness ==
    /\ Parsed
    /\ Len(BlocksOfKind(reportBlocks, { "opener" })) = 1
    /\ ~HasKind(reportBlocks, { "fence", "heading", "summary" })
    /\ parsedReport[1].raw = body
    /\ parsedReport[1].metadata.title = UnknownTitle
    /\ parsedReport[1].artifacts = << >>

-----------------------------------------------------------------------------
(* Properties of sanitizeModelResponse.                                    *)

Sanitized == sanitized # Undefined

\* text holds an opening think tag and, behind it, a closing one.
HasThinkSpan(text) ==
    \E i \in 1..Len(text) :
        /\ MatchesAt(text, i, ThinkOpen)
        /\ \E j \in (i + Len(ThinkOpen))..Len(text) : MatchesAt(text, j, ThinkClose)

\* C19: whatever the backend wrote, the text sanitizeModelResponse returns
\* holds no '<think>...</think>' span, in either case of the letters.
C19_NoThinkSpan ==
    Sanitized => ~HasThinkSpan(sanitized[1])

\* The line begins, after white space and '#' marks, with one of the labels.
BeginsWithLabel(line) ==
    LET text == TrimStart(line)
        unmarked == TrimStart(SubSeq(text, SkipWhile(text, 1, { "#" }), Len(text)))
    IN  \E label \in ReasoningLabels : MatchesAt(unmarked, 1, label)

\* The lines of text that are not blank, each without the white space around it.
ContentLines(text) ==
    LET lines == Lines(text)
    IN  SelectSeq([k \in 1..Len(lines) |-> Trim(lines[k])], LAMBDA line : line # << >>)

\* C20: of the lines of a backend output without think markup, the filter
\* removes exactly those that begin with 'Reasoning', 'Thoughts' or 'Analysis'
\* (after white space and '#' marks); every other line that is not blank is
\* kept, the line after a removed heading included.
C20_LabelledLinesOnly ==
    (Sanitized /\ \A k \in 1..Len(backendText) : backendText[k] # "<")
        => ContentLines(sanitized[1])
              = SelectSeq(ContentLines(backendText), LAMBDA line : ~BeginsWithLabel(line))

-----------------------------------------------------------------------------
(* Properties of assembleDocument.                                         *)

StartsWith(s, prefix) ==
    /\ Len(prefix) <= Len(s)
    /\ SubSeq(s, 1, Len(prefix)) = prefix

\* The sentence under the skeleton heading.
ScaffoldNote ==
    << "Use this scaffold as a starting point while following official Glider examples." >>

\* What stands between the body and the opening fence, the fence included.
SkeletonLeadIn ==
    BlankLine \o SkeletonHeading \o BlankLine \o ScaffoldNote \o BlankLine \o FenceOpen \o BlankLine

\* What stands behind the skeleton.
SkeletonLeadOut == BlankLine \o FenceClose

\* C21: for every body and skeleton the assembled document starts with the
\* trimmed body, goes on with the skeleton heading, its note and the opening
\* python fence, holds the skeleton unchanged right behind that fence and ends
\* with the closing fence; its length is that of the trimmed body, the fixed
\* text and the skeleton, so nothing of either is altered or dropped.
C21_BodyThenFencedSkeleton ==
    assembled # Undefined =>
        LET doc == assembled[1]
            trimmed == Trim(assembleArgs.markdown)
            skeleton == assembleArgs.skeleton
            fenceAt == Len(trimmed) + Len(SkeletonLeadIn)
        IN  /\ StartsWith(doc, trimmed)
            /\ OccursAt(doc, Len(trimmed) + 1, SkeletonLeadIn)
            /\ SubSeq(doc, fenceAt + 1, fenceAt + Len(skeleton)) = skeleton
            /\ EndsWith(doc, SkeletonLeadOut)
            /\ Len(doc) = fenceAt + Len(skeleton) + Len(SkeletonLeadOut)

\* A body with white space around it and a skeleton that starts with white
\* space and holds a fence of its own have been assembled.
C21_Witness ==
    /\ assembled # Undefined
    /\ Trim(assembleArgs.markdown) # << >>
    /\ Head(assembleArgs.markdown) \in WhiteSpace
    /\ assembleArgs.skeleton = << " " >> \o FenceClose

-----------------------------------------------------------------------------
(* Properties of the backend selection and of the fallback notice.         *)

Backends == { calls[i].backend : i \in 1..Len(calls) }

\* C25: when NODE_ENV is 'production' no call goes to the local backend,
\* whatever LOCAL_LLM_ENABLED is: every backend call goes to the hosted
\* backend, and a failed primary call of a model other than the fallback model
\* is followed by the fallback call.
C25_ProductionStaysHosted ==
    nodeEnv = "production" =>
        /\ Backends \subseteq {"hosted"}
        /\ (PrimaryFailed /\ modelId # FALLBACK_MODEL_ID) => Attempted("fallback")

\* In production, with the flag set, the primary call has failed and the
\* fallback call has been issued.
C25_Witness ==
    /\ nodeEnv = "production"
    /\ llmFlag = "true"
    /\ PrimaryFailed
    /\ Attempted("fallback")
    /\ Backends = {"hosted"}

\* C26 as stated: in every environment other than development the flag has no
\* effect and every backend call goes to the hosted backend.
C26_FlagIgnoredOutsideDevelopment ==
    nodeEnv # "development" => Backends \subseteq {"hosted"}

\* C26, amended: the flag is ignored in production only; in every other
\* environment (development, test, NODE_ENV unset) every backend call goes to
\* the local backend when the flag is 'true', and then no fallback call is
\* made, and to the hosted backend when it is not.
C26_FlagHonouredOutsideProduction ==
    nodeEnv # "production" =>
        /\ llmFlag = "true" => (Backends \subseteq {"local"} /\ ~Attempted("fallback"))
        /\ llmFlag # "true" => Backends \subseteq {"hosted"}

\* With NODE_ENV 'test' or unset and the flag set, the local backend has been
\* called, has failed and the static document was returned.
C26_Witness ==
    /\ nodeEnv \in {"test", "unset"}
    /\ llmFlag = "true"
    /\ Backends = {"local"}
    /\ PrimaryFailed
    /\ pc = "done"

FallbackNotice(note) == << ">", " ", "AI fallback notice:", " " >> \o note

\* The tokens of s that are equal to token.
Occurrences(s, token) == Cardinality({ i \in 1..Len(s) : s[i] = token })

\* C28: the last line of the static fallback document before the skeleton
\* section is its one 'AI fallback notice', and that notice holds the message of the error the
\* last attempted backend call failed with -- the fallback call's when it ran,
\* the primary call's when it was skipped -- or the generic text when the
\* thrown value is no Error object (white space that ends the message is lost
\* when assembleDocument trims the body).
C28_NoticeNamesLastFailure ==
    (pc = "done" /\ result.tier = "static") =>
        LET last == attempts[Len(attempts)]
            note == IF last.outcome.error.isError THEN last.outcome.error.message
                    ELSE UnknownFailureNote
        IN  /\ ~last.outcome.ok
            /\ last.tier = (IF Attempted("fallback") THEN "fallback" ELSE "primary")
            /\ EndsWith(BodyOf(result.document), TrimEnd(FallbackNotice(note)) \o BlankLine)
            /\ Occurrences(result.document, "AI fallback notice:") = 1

\* Both tiers failed, the primary with an Error and the fallback with a value
\* that is no Error object.
C28_Witness ==
    /\ pc = "done"
    /\ result.tier = "static"
    /\ Len(attempts) = 2
    /\ attempts[1].outcome.error.isError
    /\ ~attempts[2].outcome.error.isError

-----------------------------------------------------------------------------
(* Properties of the route and of the content-store loaders.               *)

Running == DOMAIN requests

HasMarkdown(req) == req.payload.json /\ ~Falsy(req.payload.markdown)

Status(req) == req.response[1].status

\* What the complete directories hold, as the loaders are to return it.
CompleteTemplates ==
    << [id |-> << "g" >>, title |-> << "g" >>, codeSnippet |-> << "x", "=", "1" >>,
        fileName |-> << "g", ".", "p", "y" >>,
        relativePath |-> << "templates/gliders/", "g", ".", "p", "y" >>] >>

CompleteReferences ==
    << [id |-> << "a" >>, title |-> << "a" >>, content |-> << "y" >>],
       [id |-> << "b" >>, title |-> << "B" >>, content |-> << "#", " ", "B", "\n", "x" >>] >>

\* C22: a request whose markdown field is missing or the empty string is
\* answered with status 400 and an error payload, and nothing of the pipeline
\* is run for it: no parser, no loader, no backend call.
C22_MissingMarkdownRejected ==
    \A r \in Running :
        LET req == requests[r]
        IN  (req.payload.json /\ Falsy(req.payload.markdown)) =>
               /\ req.pc \in {"received", "responded"}
               /\ req.pc = "responded" =>
                     /\ Status(req) = 400
                     /\ DOMAIN req.response[1].body = {"error"}
               /\ req.invoked = << >>
               /\ req.calls = << >>
               /\ req.parsedReport = Undefined
               /\ req.templates = IdleLoad
               /\ req.references = IdleLoad

\* A request whose markdown is the empty string has been answered.
C22_Witness ==
    \E r \in Running :
        /\ requests[r].payload.markdown = Defined(<< >>)
        /\ requests[r].pc = "responded"
        /\ Status(requests[r]) = 400

\* C23: a loader whose directory cannot be read returns the empty list; the
\* other loader returns what its directory holds, and the request goes on to
\* generation with the empty list and is answered with a document.
C23_UnreadableDirectoryIsEmpty ==
    \A r \in Running :
        LET req == requests[r]
        IN  /\ req.templates.listed = "failed" =>
                  /\ req.templates.at = "returned" /\ req.templates.result = << >>
                  /\ (req.references.at = "returned" /\ store.breakdowns = CompleteBreakdowns)
                        => req.references.result = CompleteReferences
                  /\ req.context # Undefined => req.context[1].templates = << >>
            /\ req.references.listed = "failed" =>
                  /\ req.references.at = "returned" /\ req.references.result = << >>
                  /\ (req.templates.at = "returned" /\ store.gliders = CompleteGliders)
                        => req.templates.result = CompleteTemplates
                  /\ req.context # Undefined => req.context[1].referenceBreakdowns = << >>
            /\ (req.pc = "responded"
                /\ "failed" \in { req.templates.listed, req.references.listed })
                  => Status(req) = 200 /\ req.calls # << >>

\* The gliders directory could not be read, the references were loaded, and
\* the request was answered with a document.
C23_Witness ==
    \E r \in Running :
        /\ requests[r].templates.listed = "failed"
        /\ requests[r].references.result = CompleteReferences
        /\ requests[r].pc = "responded"
        /\ Status(requests[r]) = 200

\* C27: the two loaders of a request are started together; the context is
\* built and the first backend call is issued only when both have returned; and
\* the context holds the report and what the two loaders returned, which is
\* what the directories hold, in whatever order the loaders completed.
C27_JoinBeforeGeneration ==
    \A r \in Running :
        LET req == requests[r]
        IN  /\ (req.templates.at = "idle") <=> (req.references.at = "idle")
            /\ (req.context # Undefined \/ req.calls # << >>) =>
                  /\ req.templates.at = "returned"
                  /\ req.references.at = "returned"
                  /\ req.context = Defined([report |-> req.parsedReport[1],
                                            referenceBreakdowns |-> req.references.result,
                                            templates |-> req.templates.result])
                  /\ store.gliders = CompleteGliders
                        => req.context[1].templates = CompleteTemplates
                  /\ store.breakdowns = CompleteBreakdowns
                        => req.context[1].referenceBreakdowns = CompleteReferences

\* The references were loaded before the templates, both loaders have
\* returned and no backend call has been issued yet.
C27_Witness ==
    \E r \in Running :
        /\ requests[r].settled = << "references", "templates" >>
        /\ requests[r].templates.result = CompleteTemplates
        /\ requests[r].references.result = CompleteReferences
        /\ requests[r].calls = << >>

\* C29: a request whose markdown is a non-empty string is answered with status
\* 200, a document and the file name 'vulnerability-breakdown.md', whatever
\* reads of the content store fail and whatever the backend calls fail with;
\* no failure of a backend call reaches the catch block of the route.
C29_AlwaysADocument ==
    \A r \in Running :
        LET req == requests[r]
        IN  HasMarkdown(req) =>
               /\ req.pc # "thrown"
               /\ req.pc = "responded" =>
                     /\ Status(req) = 200
                     /\ DOMAIN req.response[1].body = {"document", "fileName"}
                     /\ req.response[1].body.fileName = << "vulnerability-breakdown.md" >>
                     /\ req.response[1].body.document = req.document[1]
                     /\ EndsWith(req.document[1], SkeletonBlock \o NewLine)

\* Neither directory could be read, both backend calls failed, and the
\* request was answered with a document.
C29_Witness ==
    \E r \in Running :
        /\ requests[r].templates.listed = "failed"
        /\ requests[r].references.listed = "failed"
        /\ Len(requests[r].attempts) = 2
        /\ ~requests[r].attempts[2].outcome.ok
        /\ requests[r].pc = "responded"
        /\ Status(requests[r]) = 200

Loads(req) == { req.templates, req.references }

\* C30: a loader that listed its directory and failed to read one of the files
\* returns the empty list, whatever it read of the others; a loader returns
\* either an entry for every file it selected or nothing.
C30_AllOrNothing ==
    \A r \in Running :
        \A load \in Loads(requests[r]) :
            load.at = "returned" =>
               /\ (\E i \in 1..Len(load.reads) : ~load.reads[i]) => load.result = << >>
               /\ Len(load.result) \in {0, Len(load.files)}
               /\ load.result # << >> => \A i \in 1..Len(load.reads) : load.reads[i]

\* A loader has read one file, failed to read another and returned nothing.
C30_Witness ==
    \E r \in Running :
        \E load \in Loads(requests[r]) :
            /\ load.at = "returned"
            /\ load.listed = "ok"
            /\ \E i, j \in 1..Len(load.reads) : load.reads[i] /\ ~load.reads[j]
            /\ load.result = << >>

-----------------------------------------------------------------------------
(* Properties of concurrent requests.                                      *)

\* The document of a request, from its own report, its own reads of the
\* content store and the outcome of its own last backend call.
OwnDocument(req) ==
    LET ownContext == [report |-> req.parsedReport[1],
                       referenceBreakdowns |-> req.references.result,
                       templates |-> req.templates.result]
        last == req.attempts[Len(req.attempts)].outcome
    IN  Returned(assembleDocument(IF last.ok THEN last.text
                                  ELSE buildFallbackDocument(ownContext, last.error),
                                  buildGliderSkeleton))

\* Every request works on the report of its own payload, on the context of
\* its own reads, and is answered with its own document.
OwnResults ==
    \A r \in Running :
        LET req == requests[r]
        IN  /\ req.pc = "parsed" =>
                  req.parsedReport[1] = parseVulnerabilityReport(req.payload.markdown[1], Undefined)
            /\ req.context # Undefined =>
                  /\ req.context[1].report = req.parsedReport[1]
                  /\ req.context[1].templates = req.templates.result
                  /\ req.context[1].referenceBreakdowns = req.references.result
                  /\ req.templates.result = CompleteTemplates
                  /\ req.references.result = CompleteReferences
            /\ req.pc = "generated" => req.document[1] = OwnDocument(req)
            /\ req.pc = "responded" => req.response = Generated(req.document[1])

\* A step of the route changes the locals of one request only; what a request
\* has sent, parsed, read and generated is not changed afterwards, and an
\* answered request is not touched again.
OneRequestAtATime ==
    /\ \A q, r \in Running :
          (requests'[q] # requests[q] /\ requests'[r] # requests[r]) => q = r
    /\ \A r \in Running :
          /\ requests'[r].payload = requests[r].payload
          /\ requests[r].parsedReport # Undefined =>
                requests'[r].parsedReport = requests[r].parsedReport
          /\ requests[r].context # Undefined =>
                /\ requests'[r].context = requests[r].context
                /\ requests'[r].templates = requests[r].templates
                /\ requests'[r].references = requests[r].references
          /\ requests[r].document # Undefined =>
                /\ requests'[r].document = requests[r].document
                /\ requests'[r].attempts = requests[r].attempts
          /\ requests[r].pc = "responded" => requests'[r] = requests[r]
    /\ store' = store

\* C24: in every interleaving of concurrent requests each request is answered
\* with the document of its own payload, its own reads of the content store and
\* the outcomes of its own backend calls; a step taken for one request changes
\* nothing of another, and nothing of a request that was answered before.
C24_RequestsIsolated == []OwnResults /\ [][OneRequestAtATime]_vars

\* One request has been answered with the static document while another, with
\* another report, waits for its fallback call.
C24_Witness ==
    \E q, r \in Running :
        /\ requests[q].pc = "responded"
        /\ Len(requests[q].attempts) = 2
        /\ ~requests[q].attempts[2].outcome.ok
        /\ requests[r].pc = "fallback"
        /\ requests[r].payload # requests[q].payload

====
